---- MODULE Spec2Model ----
(***************************************************************************)
(* BudgetBuddy: the Ledger Store (src/storage/debtStorage.ts), the         *)
(* Calculation Engine (src/utils/calculations.ts) and the User Store       *)
(* (src/storage/userStorage.ts), each with its own specification over the  *)
(* same callers.                                                           *)
(*                                                                         *)
(* Two AsyncStorage keys hold the debts and the payments collections as    *)
(* JSON text.  Every exported operation is an async function; each await   *)
(* of an AsyncStorage call is one step of the caller that runs it, so the  *)
(* steps of calls that are in flight together may interleave.              *)
(*                                                                         *)
(* A Debt is modelled by its id, balance and originalBalance; name, rate,  *)
(* minPayment and createdAt are finite numbers and strings that every      *)
(* operation copies with the object spread and that JSON keeps as is.      *)
(* Amounts are whole numbers (cents).                                      *)
(***************************************************************************)
EXTENDS Integers, Sequences, FiniteSets, TLC

(* ------------------------------ bounds -------------------------------- *)
NumCallers == 2
MaxDebts == 2
MaxPayments == 2
MaxAmount == 2
MaxCalls == 4
MaxConcurrentCalls == 3

Procs == 1..NumCallers
DebtIds == 1..MaxDebts
Amounts == 1..MaxAmount

(* ------------------------- JavaScript values -------------------------- *)
(* A balance as JavaScript holds it: a number, undefined, NaN or null; in  *)
(* JSON text a property is a number, null, or absent.                      *)
Num(n) == [k |-> "num", n |-> n]
Undefined == [k |-> "undefined", n |-> 0]
NaN == [k |-> "NaN", n |-> 0]
Null == [k |-> "null", n |-> 0]
AbsentProp == [k |-> "absent", n |-> 0]

IsNum(x) == x.k = "num"

(* d.balance - payment.amount: ToNumber(undefined) is NaN, ToNumber(null)  *)
(* is 0, and NaN propagates.                                               *)
JSMinus(x, a) ==
  CASE x.k = "num" -> Num(x.n - a)
    [] x.k = "null" -> Num(0 - a)
    [] OTHER -> NaN

(* Math.max(0, x): NaN if x is NaN. *)
MathMax0(x) ==
  IF x.k = "num" THEN (IF x.n > 0 THEN x ELSE Num(0)) ELSE NaN

(* ------------------------------- JSON --------------------------------- *)
(* JSON.stringify of one property value: an undefined property is left     *)
(* out, NaN is written as null.                                            *)
StringifyValue(x) ==
  CASE x.k = "undefined" -> AbsentProp
    [] x.k = "NaN" -> Null
    [] OTHER -> x

(* Reading a property of a parsed object: an absent property reads as      *)
(* undefined.                                                              *)
ParseValue(x) ==
  IF x.k = "absent" THEN Undefined ELSE x

StringifyDebt(d) == [d EXCEPT !.balance = StringifyValue(d.balance)]
ParseDebt(d) == [d EXCEPT !.balance = ParseValue(d.balance)]

StringifyDebts(debts) == [i \in 1..Len(debts) |-> StringifyDebt(debts[i])]
ParseDebts(val) == [i \in 1..Len(val) |-> ParseDebt(val[i])]

(* ----------------------------- AsyncStorage --------------------------- *)
(* What a key holds: nothing (getItem gives null), or a string, which is   *)
(* either the text of a JSON array or some other text.                     *)
Absent == [tag |-> "absent", text |-> "", val |-> <<>>]
JSONText(val) == [tag |-> "json", text |-> "", val |-> val]
OtherText(s) == [tag |-> "text", text |-> s, val |-> <<>>]

MalformedTexts == {"", "{bad"}

Rejected == [ok |-> FALSE, val |-> <<>>]
Resolved(val) == [ok |-> TRUE, val |-> val]

VARIABLES
  debtsKey,       (* the payload under STORAGE_KEYS.DEBTS *)
  paymentsKey,    (* the payload under STORAGE_KEYS.PAYMENTS *)
  pc,             (* pc[p]: where caller p is in the operation it runs *)
  op,             (* op[p]: the operation caller p runs or has just run *)
  arg,            (* arg[p]: its argument *)
  loc,            (* loc[p]: its local arrays debts and payments *)
  ret,            (* ret[p]: how its promise settled, and with what *)
  pre,            (* pre[p]: what the two keys held when the call began *)
  failed,         (* failed[p]: a store call of this call was rejected *)
  nextDebtId,     (* ids handed out so far (uuidv4 never repeats) *)
  nextPaymentId,
  calls,          (* how many calls have begun *)
  userKey,        (* the payload under USER_KEY *)
  nextUserId,     (* user ids handed out so far *)
  themeKey,       (* the payload under THEME_KEY *)
  themeId,        (* ThemeProvider's state themeId *)
  themeMounted,   (* the app is running: ThemeProvider is mounted *)
  issued,         (* the AsyncStorage calls the components have issued and
                     that have not run yet, in the order of their issue *)
  screenMounted,  (* DebtTrackerScreen is mounted *)
  screenDebts,    (* its state debts *)
  isLoading,      (* its state isLoading *)
  rejected,       (* a storage call the screen started has rejected *)
  isOnboardingComplete, (* AppContent's state: "null" until the check *)
  onboardingScreen,     (* OnboardingScreen's states step and displayName *)
  addDebtModal,   (* AddDebtModal's states name, balance, rate, minPayment *)
  debtCard,       (* a DebtCard: its prop debt, its states payAmount and
                     showPayInput *)
  called          (* the last call of a form's callback prop *)

vars == <<debtsKey, paymentsKey, pc, op, arg, loc, ret, pre, failed,
          nextDebtId, nextPaymentId, calls, userKey, nextUserId,
          themeKey, themeId, themeMounted, issued,
          screenMounted, screenDebts, isLoading, rejected,
          isOnboardingComplete, onboardingScreen, addDebtModal, debtCard, called>>

(* The state of the components above the stores. *)
formVars == <<isOnboardingComplete, onboardingScreen, addDebtModal, debtCard, called>>

(* The state of the theme provider and of the debt tracker screen. *)
componentVars == <<themeKey, themeId, themeMounted, issued,
                  screenMounted, screenDebts, isLoading, rejected>>

uiVars == <<componentVars, formVars>>

NoLoc == [debts |-> <<>>, payments |-> <<>>]
NoRet == [status |-> "none", debts |-> <<>>, payments |-> <<>>]
NoArg == [none |-> TRUE]
NoPre == [debts |-> Absent, payments |-> Absent]

(* `raw ? JSON.parse(raw) : []` : null and the empty string are falsy;     *)
(* JSON.parse throws on text that is not JSON.                             *)
ParseOrEmpty(raw) ==
  CASE raw.tag = "absent" -> Resolved(<<>>)
    [] raw.tag = "json" -> Resolved(raw.val)
    [] raw.tag = "text" /\ raw.text = "" -> Resolved(<<>>)
    [] OTHER -> Rejected

(* The Debt[] that the caller of JSON.parse reads from the parsed array. *)
AsDebts(r) == [ok |-> r.ok, val |-> ParseDebts(r.val)]

(* A getDebts that catches the store's rejection and gives []. *)
getDebtsMaskingFailure(storeOk) ==
  IF storeOk THEN AsDebts(ParseOrEmpty(debtsKey)) ELSE Resolved(<<>>)

(* getDebts; storeOk: AsyncStorage.getItem resolved. *)
getDebts(storeOk) ==
  IF storeOk THEN AsDebts(ParseOrEmpty(debtsKey)) ELSE Rejected

(* A getPayments that starts from [] whatever the key holds. *)
getPaymentsIgnoringStored(storeOk) ==
  IF storeOk THEN Resolved(<<>>) ELSE Rejected

(* getPayments *)
getPayments(storeOk) ==
  IF storeOk THEN ParseOrEmpty(paymentsKey) ELSE Rejected

(* saveDebts: the payload under DEBTS after setItem settles. *)
saveDebts(debts, storeOk) ==
  IF storeOk THEN JSONText(StringifyDebts(debts)) ELSE debtsKey

(* A setItem that resolves and stores nothing. *)
setPaymentsDropped(payments, storeOk) == paymentsKey

(* AsyncStorage.setItem(STORAGE_KEYS.PAYMENTS, JSON.stringify(payments)) *)
setPayments(payments, storeOk) ==
  IF storeOk THEN JSONText(payments) ELSE paymentsKey

Init ==
  /\ debtsKey = Absent
  /\ paymentsKey = Absent
  /\ pc = [p \in Procs |-> "idle"]
  /\ op = [p \in Procs |-> "none"]
  /\ arg = [p \in Procs |-> NoArg]
  /\ loc = [p \in Procs |-> NoLoc]
  /\ ret = [p \in Procs |-> NoRet]
  /\ pre = [p \in Procs |-> NoPre]
  /\ failed = [p \in Procs |-> FALSE]
  /\ nextDebtId = 1
  /\ nextPaymentId = 1
  /\ calls = 0
  /\ userKey = Absent
  /\ nextUserId = 1
  /\ themeKey = Absent
  /\ themeId = "forest_gold"
  /\ themeMounted = FALSE
  /\ issued = <<>>
  /\ screenMounted = FALSE
  /\ screenDebts = <<>>
  /\ isLoading = TRUE
  /\ rejected = FALSE
  /\ isOnboardingComplete = "null"
  /\ onboardingScreen = [step |-> "theme", displayName |-> <<>>]
  /\ addDebtModal = [name |-> <<>>, balance |-> <<>>, rate |-> <<>>, minPayment |-> <<>>]
  /\ debtCard = [debt |-> [id |-> 1, balance |-> Num(0)], payAmount |-> <<>>,
                 showPayInput |-> FALSE]
  /\ called = [fn |-> "none"]

(* ------------------------- steps of a caller -------------------------- *)
Goto(p, label) == pc' = [pc EXCEPT ![p] = label]

SetLoc(p, l) == loc' = [loc EXCEPT ![p] = l]

(* The promise of caller p settles with r. *)
Settle(p, r) ==
  /\ pc' = [pc EXCEPT ![p] = "done"]
  /\ ret' = [ret EXCEPT ![p] = r]
  /\ loc' = [loc EXCEPT ![p] = NoLoc]

(* An await of a rejected promise throws; no operation of the file has a   *)
(* try/catch, so the rejection is the caller's.                            *)
Throw(p) == Settle(p, [status |-> "rejected", debts |-> <<>>, payments |-> <<>>])

Return(p, debts, payments) ==
  Settle(p, [status |-> "resolved", debts |-> debts, payments |-> payments])

NoteStore(p, storeOk) == failed' = [failed EXCEPT ![p] = @ \/ ~storeOk]

BeginCall(p, name, a, label) ==
  /\ pc[p] = "idle"
  /\ calls < MaxCalls
  /\ calls' = calls + 1
  /\ pc' = [pc EXCEPT ![p] = label]
  /\ op' = [op EXCEPT ![p] = name]
  /\ arg' = [arg EXCEPT ![p] = a]
  /\ pre' = [pre EXCEPT ![p] = [debts |-> debtsKey, payments |-> paymentsKey]]
  /\ UNCHANGED <<debtsKey, paymentsKey, userKey, nextUserId, loc, ret, failed>>

(* A call of one of the stores, made from outside the components below. *)
Begin(p, name, a, label) ==
  /\ BeginCall(p, name, a, label)
  /\ UNCHANGED uiVars

(* ------------------------------ getDebts ------------------------------ *)
CallGetDebts(p) ==
  /\ Begin(p, "getDebts", NoArg, "gd_get")
  /\ UNCHANGED <<nextDebtId, nextPaymentId>>

GetDebtsStep(p) ==
  /\ pc[p] = "gd_get"
  /\ \E storeOk \in BOOLEAN :
       LET r == getDebts(storeOk) IN
       /\ NoteStore(p, storeOk)
       /\ IF r.ok THEN Return(p, r.val, <<>>) ELSE Throw(p)
  /\ UNCHANGED <<debtsKey, paymentsKey, op, arg, pre, nextDebtId, nextPaymentId, calls,
               userKey, nextUserId, uiVars>>

(* ----------------------------- getPayments ---------------------------- *)
CallGetPayments(p) ==
  /\ Begin(p, "getPayments", NoArg, "gp_get")
  /\ UNCHANGED <<nextDebtId, nextPaymentId>>

GetPaymentsStep(p) ==
  /\ pc[p] = "gp_get"
  /\ \E storeOk \in BOOLEAN :
       LET r == getPayments(storeOk) IN
       /\ NoteStore(p, storeOk)
       /\ IF r.ok THEN Return(p, <<>>, r.val) ELSE Throw(p)
  /\ UNCHANGED <<debtsKey, paymentsKey, op, arg, pre, nextDebtId, nextPaymentId, calls,
               userKey, nextUserId, uiVars>>

(* ------------------------------- addDebt ------------------------------ *)
(* The caller builds the Debt: a fresh uuid, balance = originalBalance.    *)
NewDebt(id, b) == [id |-> id, balance |-> Num(b), originalBalance |-> b]

CallAddDebt(p) ==
  /\ nextDebtId <= MaxDebts
  /\ \E b \in Amounts : Begin(p, "addDebt", [debt |-> NewDebt(nextDebtId, b)], "ad_get")
  /\ nextDebtId' = nextDebtId + 1
  /\ UNCHANGED nextPaymentId

(* const debts = await getDebts(); debts.push(debt); *)
AddDebtGet(p) ==
  /\ pc[p] = "ad_get"
  /\ \E storeOk \in BOOLEAN :
       LET r == getDebts(storeOk) IN
       /\ NoteStore(p, storeOk)
       /\ IF r.ok
            THEN /\ Goto(p, "ad_save")
                 /\ SetLoc(p, [loc[p] EXCEPT !.debts = Append(r.val, arg[p].debt)])
                 /\ UNCHANGED ret
            ELSE Throw(p)
  /\ UNCHANGED <<debtsKey, paymentsKey, op, arg, pre, nextDebtId, nextPaymentId, calls,
               userKey, nextUserId, uiVars>>

(* await saveDebts(debts); return debts; *)
AddDebtSave(p) ==
  /\ pc[p] = "ad_save"
  /\ \E storeOk \in BOOLEAN :
       /\ NoteStore(p, storeOk)
       /\ debtsKey' = saveDebts(loc[p].debts, storeOk)
       /\ IF storeOk THEN Return(p, loc[p].debts, <<>>) ELSE Throw(p)
  /\ UNCHANGED <<paymentsKey, op, arg, pre, nextDebtId, nextPaymentId, calls,
               userKey, nextUserId, uiVars>>

(* ------------------------------ deleteDebt ---------------------------- *)
CallDeleteDebt(p) ==
  /\ \E id \in DebtIds : Begin(p, "deleteDebt", [id |-> id], "dd_get")
  /\ UNCHANGED <<nextDebtId, nextPaymentId>>

(* A filter with === for !==. *)
FilterOutInverted(debts, id) == SelectSeq(debts, LAMBDA d : d.id = id)

(* debts.filter((d) => d.id !== id) *)
FilterOut(debts, id) == SelectSeq(debts, LAMBDA d : d.id # id)

DeleteDebtGet(p) ==
  /\ pc[p] = "dd_get"
  /\ \E storeOk \in BOOLEAN :
       LET r == getDebts(storeOk) IN
       /\ NoteStore(p, storeOk)
       /\ IF r.ok
            THEN /\ Goto(p, "dd_save")
                 /\ SetLoc(p, [loc[p] EXCEPT !.debts = FilterOut(r.val, arg[p].id)])
                 /\ UNCHANGED ret
            ELSE Throw(p)
  /\ UNCHANGED <<debtsKey, paymentsKey, op, arg, pre, nextDebtId, nextPaymentId, calls,
               userKey, nextUserId, uiVars>>

DeleteDebtSave(p) ==
  /\ pc[p] = "dd_save"
  /\ \E storeOk \in BOOLEAN :
       /\ NoteStore(p, storeOk)
       /\ debtsKey' = saveDebts(loc[p].debts, storeOk)
       /\ IF storeOk THEN Return(p, loc[p].debts, <<>>) ELSE Throw(p)
  /\ UNCHANGED <<paymentsKey, op, arg, pre, nextDebtId, nextPaymentId, calls,
               userKey, nextUserId, uiVars>>

(* ------------------------------ updateDebt ---------------------------- *)
(* { ...d, ...updates }: every own property of updates, an undefined one   *)
(* included, replaces d's.                                                 *)
Spread(d, updates) ==
  [f \in DOMAIN d |-> IF f \in DOMAIN updates THEN updates[f] ELSE d[f]]

(* A map that merges the updates into every debt. *)
MergeUpdatesEveryDebt(debts, id, updates) ==
  [i \in 1..Len(debts) |-> Spread(debts[i], updates)]

(* debts.map((d) => (d.id === id ? { ...d, ...updates } : d)) *)
MergeUpdates(debts, id, updates) ==
  [i \in 1..Len(debts) |->
     IF debts[i].id = id THEN Spread(debts[i], updates) ELSE debts[i]]

(* The edits a caller makes: a new balance. *)
UpdateInputs == {[balance |-> Num(n)] : n \in 0..MaxAmount}

CallUpdateDebt(p) ==
  /\ \E id \in DebtIds, u \in UpdateInputs :
       Begin(p, "updateDebt", [id |-> id, updates |-> u], "ud_get")
  /\ UNCHANGED <<nextDebtId, nextPaymentId>>

UpdateDebtGet(p) ==
  /\ pc[p] = "ud_get"
  /\ \E storeOk \in BOOLEAN :
       LET r == getDebts(storeOk) IN
       /\ NoteStore(p, storeOk)
       /\ IF r.ok
            THEN /\ Goto(p, "ud_save")
                 /\ SetLoc(p, [loc[p] EXCEPT
                      !.debts = MergeUpdates(r.val, arg[p].id, arg[p].updates)])
                 /\ UNCHANGED ret
            ELSE Throw(p)
  /\ UNCHANGED <<debtsKey, paymentsKey, op, arg, pre, nextDebtId, nextPaymentId, calls,
               userKey, nextUserId, uiVars>>

UpdateDebtSave(p) ==
  /\ pc[p] = "ud_save"
  /\ \E storeOk \in BOOLEAN :
       /\ NoteStore(p, storeOk)
       /\ debtsKey' = saveDebts(loc[p].debts, storeOk)
       /\ IF storeOk THEN Return(p, loc[p].debts, <<>>) ELSE Throw(p)
  /\ UNCHANGED <<paymentsKey, op, arg, pre, nextDebtId, nextPaymentId, calls,
               userKey, nextUserId, uiVars>>

(* ----------------------------- recordPayment -------------------------- *)
NewPayment(id, debtId, amount) == [id |-> id, debtId |-> debtId, amount |-> amount]

CallRecordPayment(p) ==
  /\ nextPaymentId <= MaxPayments
  /\ \E debtId \in DebtIds, amount \in Amounts :
       Begin(p, "recordPayment",
             [payment |-> NewPayment(nextPaymentId, debtId, amount)], "rp_getPayments")
  /\ nextPaymentId' = nextPaymentId + 1
  /\ UNCHANGED nextDebtId

(* const payments = await getPayments(); payments.push(payment); *)
RecordPaymentGetPayments(p) ==
  /\ pc[p] = "rp_getPayments"
  /\ \E storeOk \in BOOLEAN :
       LET r == getPayments(storeOk) IN
       /\ NoteStore(p, storeOk)
       /\ IF r.ok
            THEN /\ Goto(p, "rp_setPayments")
                 /\ SetLoc(p, [loc[p] EXCEPT !.payments = Append(r.val, arg[p].payment)])
                 /\ UNCHANGED ret
            ELSE Throw(p)
  /\ UNCHANGED <<debtsKey, paymentsKey, op, arg, pre, nextDebtId, nextPaymentId, calls,
               userKey, nextUserId, uiVars>>

(* await AsyncStorage.setItem(STORAGE_KEYS.PAYMENTS, JSON.stringify(payments)); *)
RecordPaymentSetPayments(p) ==
  /\ pc[p] = "rp_setPayments"
  /\ \E storeOk \in BOOLEAN :
       /\ NoteStore(p, storeOk)
       /\ paymentsKey' = setPayments(loc[p].payments, storeOk)
       /\ IF storeOk
            THEN Goto(p, "rp_updateDebt_get") /\ UNCHANGED <<loc, ret>>
            ELSE Throw(p)
  /\ UNCHANGED <<debtsKey, op, arg, pre, nextDebtId, nextPaymentId, calls,
               userKey, nextUserId, uiVars>>

(* The argument of recordPayment's call of updateDebt. *)
BalancePlaceholder == [balance |-> Undefined]

(* updateDebt(payment.debtId, { balance: undefined }): its getDebts and map *)
RecordPaymentUpdateDebtGet(p) ==
  /\ pc[p] = "rp_updateDebt_get"
  /\ \E storeOk \in BOOLEAN :
       LET r == getDebts(storeOk) IN
       /\ NoteStore(p, storeOk)
       /\ IF r.ok
            THEN /\ Goto(p, "rp_updateDebt_save")
                 /\ SetLoc(p, [loc[p] EXCEPT !.debts =
                      MergeUpdates(r.val, arg[p].payment.debtId, BalancePlaceholder)])
                 /\ UNCHANGED ret
            ELSE Throw(p)
  /\ UNCHANGED <<debtsKey, paymentsKey, op, arg, pre, nextDebtId, nextPaymentId, calls,
               userKey, nextUserId, uiVars>>

(* ... its saveDebts(updated); updateDebt returns updated. *)
RecordPaymentUpdateDebtSave(p) ==
  /\ pc[p] = "rp_updateDebt_save"
  /\ \E storeOk \in BOOLEAN :
       /\ NoteStore(p, storeOk)
       /\ debtsKey' = saveDebts(loc[p].debts, storeOk)
       /\ IF storeOk
            THEN Goto(p, "rp_save") /\ UNCHANGED <<loc, ret>>
            ELSE Throw(p)
  /\ UNCHANGED <<paymentsKey, op, arg, pre, nextDebtId, nextPaymentId, calls,
               userKey, nextUserId, uiVars>>

(* debts.map: the paid debt gets Math.max(0, d.balance - payment.amount) *)
Recalculate(debts, payment) ==
  [i \in 1..Len(debts) |->
     IF debts[i].id = payment.debtId
       THEN [debts[i] EXCEPT !.balance = MathMax0(JSMinus(debts[i].balance, payment.amount))]
       ELSE debts[i]]

(* await saveDebts(recalculated); return { debts: recalculated, payments }; *)
RecordPaymentSave(p) ==
  /\ pc[p] = "rp_save"
  /\ \E storeOk \in BOOLEAN :
       LET recalculated == Recalculate(loc[p].debts, arg[p].payment) IN
       /\ NoteStore(p, storeOk)
       /\ debtsKey' = saveDebts(recalculated, storeOk)
       /\ IF storeOk THEN Return(p, recalculated, loc[p].payments) ELSE Throw(p)
  /\ UNCHANGED <<paymentsKey, op, arg, pre, nextDebtId, nextPaymentId, calls,
               userKey, nextUserId, uiVars>>

(* ------------------------------ clearAllData -------------------------- *)
CallClearAllData(p) ==
  /\ Begin(p, "clearAllData", NoArg, "cl_remove")
  /\ UNCHANGED <<nextDebtId, nextPaymentId>>

(* A multiRemove given the DEBTS key alone. *)
multiRemoveDebtsOnly(storeOk) ==
  IF storeOk THEN <<Absent, paymentsKey>> ELSE <<debtsKey, paymentsKey>>

(* AsyncStorage.multiRemove([DEBTS, PAYMENTS]): what the keys hold after. *)
multiRemove(storeOk) ==
  IF storeOk THEN <<Absent, Absent>> ELSE <<debtsKey, paymentsKey>>

ClearAllDataStep(p) ==
  /\ pc[p] = "cl_remove"
  /\ \E storeOk \in BOOLEAN :
       /\ NoteStore(p, storeOk)
       /\ debtsKey' = multiRemove(storeOk)[1]
       /\ paymentsKey' = multiRemove(storeOk)[2]
       /\ IF storeOk THEN Return(p, <<>>, <<>>) ELSE Throw(p)
  /\ UNCHANGED <<op, arg, pre, nextDebtId, nextPaymentId, calls,
               userKey, nextUserId, uiVars>>

(* ------------------------------ the callers --------------------------- *)
(* The caller has its result and may call again. *)
Acknowledge(p) ==
  /\ pc[p] = "done"
  /\ pc' = [pc EXCEPT ![p] = "idle"]
  /\ op' = [op EXCEPT ![p] = "none"]
  /\ arg' = [arg EXCEPT ![p] = NoArg]
  /\ ret' = [ret EXCEPT ![p] = NoRet]
  /\ pre' = [pre EXCEPT ![p] = NoPre]
  /\ failed' = [failed EXCEPT ![p] = FALSE]
  /\ UNCHANGED <<debtsKey, paymentsKey, loc, nextDebtId, nextPaymentId, calls,
               userKey, nextUserId, uiVars>>

AllIdle == \A q \in Procs : pc[q] = "idle"

(* The payload of a key is damaged from outside the program, between calls. *)
Corrupt ==
  /\ AllIdle
  /\ \E s \in MalformedTexts :
       \/ debtsKey' = OtherText(s) /\ UNCHANGED paymentsKey
       \/ paymentsKey' = OtherText(s) /\ UNCHANGED debtsKey
  /\ UNCHANGED <<pc, op, arg, loc, ret, pre, failed, nextDebtId, nextPaymentId, calls,
               userKey, nextUserId, uiVars>>

(* Caller p begins a call when no call is in flight. *)
SequentialCall(p) ==
  \/ AllIdle /\ CallGetDebts(p)
  \/ AllIdle /\ CallGetPayments(p)
  \/ AllIdle /\ CallAddDebt(p)
  \/ AllIdle /\ CallDeleteDebt(p)
  \/ AllIdle /\ CallUpdateDebt(p)
  \/ AllIdle /\ CallRecordPayment(p)
  \/ AllIdle /\ CallClearAllData(p)

(* The calls that may be in flight together are bounded in number. *)
MayCall == calls < MaxConcurrentCalls

(* Caller p begins a call, whatever the other callers are doing. *)
ConcurrentCall(p) ==
  \/ MayCall /\ CallGetDebts(p)
  \/ MayCall /\ CallGetPayments(p)
  \/ MayCall /\ CallAddDebt(p)
  \/ MayCall /\ CallDeleteDebt(p)
  \/ MayCall /\ CallUpdateDebt(p)
  \/ MayCall /\ CallRecordPayment(p)
  \/ MayCall /\ CallClearAllData(p)

Step(p) ==
  \/ GetDebtsStep(p)
  \/ GetPaymentsStep(p)
  \/ AddDebtGet(p)
  \/ AddDebtSave(p)
  \/ DeleteDebtGet(p)
  \/ DeleteDebtSave(p)
  \/ UpdateDebtGet(p)
  \/ UpdateDebtSave(p)
  \/ RecordPaymentGetPayments(p)
  \/ RecordPaymentSetPayments(p)
  \/ RecordPaymentUpdateDebtGet(p)
  \/ RecordPaymentUpdateDebtSave(p)
  \/ RecordPaymentSave(p)
  \/ ClearAllDataStep(p)
  \/ Acknowledge(p)

(* One caller, its calls made one after another, as the store expects. *)
MainCaller == CHOOSE p \in Procs : TRUE

Next == SequentialCall(MainCaller) \/ Step(MainCaller)

Spec == Init /\ [][Next]_vars

(* Calls in flight together: their steps interleave. *)
NextConcurrent ==
  \E p \in Procs : ConcurrentCall(p) \/ Step(p)

SpecConcurrent == Init /\ [][NextConcurrent]_vars

(* Calls one after another over a store whose payloads may be damaged. *)
NextCorrupt == Next \/ Corrupt

SpecCorrupt == Init /\ [][NextCorrupt]_vars

(* ------------------- every argument the types admit ------------------- *)
(* addDebt(debt: Debt): the id is the caller's; the store neither makes    *)
(* it nor looks at it.  Here the caller passes an id it has used before.   *)
CallAddDebtGivenId(p) ==
  /\ \E id \in 1..(nextDebtId - 1), b \in Amounts :
       Begin(p, "addDebt", [debt |-> NewDebt(id, b)], "ad_get")
  /\ UNCHANGED <<nextDebtId, nextPaymentId>>

(* updates: Partial<Debt> has every property of a Debt, id and             *)
(* originalBalance included.                                               *)
IdentityUpdates ==
  {[id |-> j] : j \in DebtIds} \cup {[originalBalance |-> n] : n \in Amounts}

CallUpdateDebtIdentity(p) ==
  /\ \E id \in DebtIds, u \in IdentityUpdates :
       Begin(p, "updateDebt", [id |-> id, updates |-> u], "ud_get")
  /\ UNCHANGED <<nextDebtId, nextPaymentId>>

AnyArgumentCall(p) ==
  \/ AllIdle /\ CallAddDebtGivenId(p)
  \/ AllIdle /\ CallUpdateDebtIdentity(p)

(* Calls one after another, with every argument the signatures admit. *)
NextAnyArgument == Next \/ AnyArgumentCall(MainCaller)

SpecAnyArgument == Init /\ [][NextAnyArgument]_vars

(* ========================= Calculation Engine ========================= *)
(* src/utils/calculations.ts: pure functions over JavaScript numbers.      *)
(*                                                                         *)
(* A JavaScript number is a binary floating-point value: every division,   *)
(* product, sum and difference is rounded to the nearest value with a      *)
(* significand of so many bits, ties to even.  The program's doubles have  *)
(* 53 bits; the integers of TLC have 32 bits, so the model keeps           *)
(* SignificandBits of them.  On whole numbers below 2^SignificandBits and  *)
(* on halves and quarters of them no operation rounds, and the model's     *)
(* values are the program's.  13 is 53 modulo 20, the period of the binary *)
(* expansion of a whole rate divided by 1200: the comparison of a payment  *)
(* with the interest of a whole balance at a whole rate comes out with 13  *)
(* bits as it does with 53.                                                *)
SignificandBits == 13

RECURSIVE Pow2(_)
Pow2(k) == IF k <= 0 THEN 1 ELSE 2 * Pow2(k - 1)

RECURSIVE BitLen(_)
BitLen(a) == IF a = 0 THEN 0 ELSE 1 + BitLen(a \div 2)

Abs(m) == IF m < 0 THEN 0 - m ELSE m

(* The number m * 2^e; m is odd, or the number is zero. *)
Flt(m, e) == [k |-> "num", m |-> m, e |-> e]
NotANumber == [k |-> "NaN", m |-> 0, e |-> 0]
Infinity == [k |-> "Infinity", m |-> 1, e |-> 0]

IsFlt(x) == x.k = "num"

RECURSIVE Strip(_, _)
Strip(m, e) ==
  IF m = 0 THEN Flt(0, 0)
  ELSE IF m % 2 = 0 THEN Strip(m \div 2, e + 1)
  ELSE Flt(m, e)

(* m * 2^e rounded to SignificandBits bits, ties to even. *)
Round(m, e) ==
  LET a == Abs(m)
      s == BitLen(a) - SignificandBits
  IN  IF s <= 0 THEN Strip(m, e)
      ELSE LET q == a \div Pow2(s)
               rem == a % Pow2(s)
               half == Pow2(s - 1)
               up == rem > half \/ (rem = half /\ q % 2 = 1)
               q2 == IF up THEN q + 1 ELSE q
           IN  Strip(IF m < 0 THEN 0 - q2 ELSE q2, e + s)

(* A whole number as a JavaScript number. *)
FromInt(n) == Round(n, 0)

(* One past the position of the leading bit of a nonzero number. *)
Top(x) == x.e + BitLen(Abs(x.m))

Neg(x) == IF IsFlt(x) THEN Flt(0 - x.m, x.e) ELSE x

(* x + y.  An operand whose bits all lie more than a bit below the last    *)
(* bit of the other does not change it.                                    *)
FAdd(x, y) ==
  IF ~IsFlt(x) \/ ~IsFlt(y) THEN NotANumber
  ELSE IF x.m = 0 THEN y
  ELSE IF y.m = 0 THEN x
  ELSE LET lo == IF x.e < y.e THEN x.e ELSE y.e
           hi == IF Top(x) > Top(y) THEN Top(x) ELSE Top(y)
       IN  IF hi - lo > 2 * SignificandBits + 2
             THEN (IF Top(x) > Top(y) THEN x ELSE y)
             ELSE Round(x.m * Pow2(x.e - lo) + y.m * Pow2(y.e - lo), lo)

FSub(x, y) == FAdd(x, Neg(y))

FMul(x, y) ==
  IF ~IsFlt(x) \/ ~IsFlt(y) THEN NotANumber
  ELSE Round(x.m * y.m, x.e + y.e)

(* x / y: the quotient with two bits more than the significand, and one    *)
(* more that says whether anything was left over, then rounded.            *)
FDiv(x, y) ==
  IF ~IsFlt(x) \/ ~IsFlt(y) THEN NotANumber
  ELSE IF y.m = 0
    THEN (IF x.m = 0 THEN NotANumber
          ELSE [Infinity EXCEPT !.m = IF x.m > 0 THEN 1 ELSE -1])
  ELSE IF x.m = 0 THEN Flt(0, 0)
  ELSE LET a == Abs(x.m)
           b == Abs(y.m)
           k == SignificandBits + 2 + BitLen(b) - BitLen(a)
           q == (a * Pow2(k)) \div b
           rem == (a * Pow2(k)) % b
           qs == 2 * q + (IF rem = 0 THEN 0 ELSE 1)
           neg == (x.m < 0) # (y.m < 0)
       IN  Round(IF neg THEN 0 - qs ELSE qs, x.e - y.e - k - 1)

(* x <= y, x < y, x === y: false when either is NaN. *)
FLe(x, y) == IsFlt(x) /\ IsFlt(y) /\ FSub(x, y).m <= 0
FLt(x, y) == IsFlt(x) /\ IsFlt(y) /\ FSub(x, y).m < 0
StrictEq(x, y) == x.k # "NaN" /\ x = y

Zero == Flt(0, 0)
One == FromInt(1)

(* Math.ceil *)
MathCeil(x) ==
  IF ~IsFlt(x) \/ x.e >= 0 THEN x
  ELSE IF 0 - x.e > 2 * SignificandBits + 2
    THEN (IF x.m > 0 THEN One ELSE Zero)
  ELSE FromInt(0 - ((0 - x.m) \div Pow2(0 - x.e)))

(* Math.floor in the place of Math.ceil. *)
MathFloor(x) ==
  IF ~IsFlt(x) \/ x.e >= 0 THEN x
  ELSE IF 0 - x.e > 2 * SignificandBits + 2
    THEN (IF x.m > 0 THEN Zero ELSE FromInt(-1))
  ELSE FromInt(x.m \div Pow2(0 - x.e))

(* Math.min and Math.max of two numbers: NaN if either is NaN. *)
MathMin(x, y) ==
  IF ~IsFlt(x) \/ ~IsFlt(y) THEN NotANumber
  ELSE IF FLe(x, y) THEN x ELSE y

MathMax(x, y) ==
  IF ~IsFlt(x) \/ ~IsFlt(y) THEN NotANumber
  ELSE IF FLe(x, y) THEN y ELSE x

(* base^(2^j) *)
RECURSIVE BasePow(_, _)
BasePow(base, j) ==
  IF j = 0 THEN base
  ELSE LET h == BasePow(base, j - 1) IN FMul(h, h)

(* m plus the largest count below 2^(j+1) of factors base that keep y      *)
(* below 1.                                                                *)
RECURSIVE MostBelow(_, _, _, _)
MostBelow(y, base, j, m) ==
  IF j < 0 THEN m
  ELSE LET z == FMul(y, BasePow(base, j))
       IN  IF FLt(z, One) THEN MostBelow(z, base, j - 1, m + Pow2(j))
           ELSE MostBelow(y, base, j - 1, m)

(* The least n with y * base^n >= 1, for y > 0 and base > 1; it is below   *)
(* 2^(SignificandBits + 4) for the numbers of this width.                  *)
LeastPower(y, base) ==
  IF FLe(One, y) THEN 0 ELSE 1 + MostBelow(y, base, SignificandBits + 3, 0)

(* The closed form without its last, partial month. *)
CeilLogRatioLessOne(x, base) ==
  IF ~IsFlt(x) \/ ~IsFlt(base) THEN NotANumber
  ELSE IF x.m = 0 THEN Infinity
  ELSE IF base = One THEN (IF x = One THEN NotANumber ELSE Infinity)
  ELSE LET n == LeastPower(x, base)
       IN  FromInt(IF n > 0 THEN n - 1 ELSE 0)

(* Math.ceil(-Math.log(x) / Math.log(base)) for 0 <= x <= 1 <= base, the   *)
(* only values the rates of the model (none negative) bring here:          *)
(* the least whole n with base^n >= 1/x.  log(0) is -Infinity, log(1) is 0.*)
CeilLogRatio(x, base) ==
  IF ~IsFlt(x) \/ ~IsFlt(base) THEN NotANumber
  ELSE IF x.m = 0 THEN Infinity
  ELSE IF base = One THEN (IF x = One THEN NotANumber ELSE Infinity)
  ELSE FromInt(LeastPower(x, base))

(* annualRate / 100 / 12 *)
MonthlyRate(annualRate) == FDiv(FDiv(annualRate, FromInt(100)), FromInt(12))

(* if (monthlyPayment <= balance * monthlyRate) *)
InterestGuard(balance, monthlyRate, monthlyPayment) ==
  FLe(monthlyPayment, FMul(balance, monthlyRate))

(* Math.ceil(-Math.log(1 - (balance * monthlyRate) / monthlyPayment)       *)
(*           / Math.log(1 + monthlyRate))                                  *)
ClosedForm(balance, monthlyRate, monthlyPayment) ==
  CeilLogRatio(FSub(One, FDiv(FMul(balance, monthlyRate), monthlyPayment)),
               FAdd(One, monthlyRate))

(* The 0%-APR branch with the quotient rounded down. *)
ZeroRateMonthsFloor(balance, monthlyPayment) ==
  MathFloor(FDiv(balance, monthlyPayment))

(* if (monthlyRate === 0) return Math.ceil(balance / monthlyPayment) *)
ZeroRateMonths(balance, monthlyPayment) ==
  MathCeil(FDiv(balance, monthlyPayment))

calcMonthsToPayoff(balance, annualRate, monthlyPayment) ==
  IF FLe(balance, Zero) THEN Zero
  ELSE IF FLe(monthlyPayment, Zero) THEN Infinity
  ELSE LET monthlyRate == MonthlyRate(annualRate)
       IN  IF StrictEq(monthlyRate, Zero)
             THEN ZeroRateMonths(balance, monthlyPayment)
           ELSE IF InterestGuard(balance, monthlyRate, monthlyPayment)
             THEN Infinity
           ELSE ClosedForm(balance, monthlyRate, monthlyPayment)

calcTotalInterest(balance, annualRate, monthlyPayment) ==
  LET months == calcMonthsToPayoff(balance, annualRate, monthlyPayment)
  IN  IF StrictEq(months, Infinity) \/ StrictEq(months, Zero) THEN Zero
      ELSE MathMax(Zero, FSub(FMul(monthlyPayment, months), balance))

(* ------------------------ generatePayoffSchedule ---------------------- *)
(* while (remaining > 0 && month < 600) *)
MaxScheduleMonths == 600

(* The loop condition with <= for <. *)
LoopContinuesOneMore(remaining, month) ==
  FLt(Zero, remaining) /\ month <= MaxScheduleMonths

LoopContinues(remaining, month) ==
  FLt(Zero, remaining) /\ month < MaxScheduleMonths

(* remaining * monthlyRate *)
Interest(remaining, monthlyRate) == FMul(remaining, monthlyRate)

(* Math.min(monthlyPayment - interest, remaining) *)
Principal(monthlyPayment, interest, remaining) ==
  MathMin(FSub(monthlyPayment, interest), remaining)

(* Math.max(0, remaining - principal) *)
NextRemaining(remaining, principal) ==
  MathMax(Zero, FSub(remaining, principal))

PayoffMonth(month, remaining, interest, principal) ==
  [month |-> month, balance |-> remaining,
   interestPaid |-> interest, principalPaid |-> principal]

(* ------------------------- inputs of the engine ----------------------- *)
MaxBalance == 4
MaxPayment == 5

(* Balances and payments: small whole numbers, zero, a negative one, NaN. *)
Balances == {FromInt(n) : n \in -1..MaxBalance} \cup {NotANumber}
Payments == {FromInt(n) : n \in -1..MaxPayment} \cup {NotANumber}

(* Annual rates in percent whose monthly rates are 0, 1/2 and 1; and NaN. *)
AnnualRates == {FromInt(0), FromInt(600), FromInt(1200), NotANumber}

CalcArg(balance, annualRate, monthlyPayment) ==
  [balance |-> balance, annualRate |-> annualRate,
   monthlyPayment |-> monthlyPayment]

SmallInputs ==
  {CalcArg(b, r, m) : b \in Balances, r \in AnnualRates, m \in Payments}

(* Debts at 0% that take as many months as the cap, and one more. *)
LongInputs ==
  {CalcArg(FromInt(n), Zero, One) :
     n \in {MaxScheduleMonths, MaxScheduleMonths + 1}}

(* Debts whose payment is the month's interest to the cent: 80 at 15% and  *)
(* 40 at 30% accrue 1 a month.                                             *)
BoundaryInputs ==
  {CalcArg(FromInt(80), FromInt(15), One),
   CalcArg(FromInt(40), FromInt(30), One)}

CalcInputs == SmallInputs \cup LongInputs \cup BoundaryInputs

(* --------------------------- calls of the engine ---------------------- *)
Value(v) == [status |-> "resolved", value |-> v]

CallCalcMonthsToPayoff(p) ==
  /\ \E a \in CalcInputs : Begin(p, "calcMonthsToPayoff", a, "cm_return")
  /\ UNCHANGED <<nextDebtId, nextPaymentId>>

CalcMonthsToPayoffStep(p) ==
  /\ pc[p] = "cm_return"
  /\ Settle(p, Value(calcMonthsToPayoff(arg[p].balance, arg[p].annualRate,
                                        arg[p].monthlyPayment)))
  /\ UNCHANGED <<debtsKey, paymentsKey, op, arg, pre, failed, nextDebtId,
                 nextPaymentId, calls, userKey, nextUserId, uiVars>>

CallCalcTotalInterest(p) ==
  /\ \E a \in CalcInputs : Begin(p, "calcTotalInterest", a, "ci_return")
  /\ UNCHANGED <<nextDebtId, nextPaymentId>>

CalcTotalInterestStep(p) ==
  /\ pc[p] = "ci_return"
  /\ Settle(p, Value(calcTotalInterest(arg[p].balance, arg[p].annualRate,
                                       arg[p].monthlyPayment)))
  /\ UNCHANGED <<debtsKey, paymentsKey, op, arg, pre, failed, nextDebtId,
                 nextPaymentId, calls, userKey, nextUserId, uiVars>>

CallGeneratePayoffSchedule(p) ==
  /\ \E a \in CalcInputs : Begin(p, "generatePayoffSchedule", a, "gs_init")
  /\ UNCHANGED <<nextDebtId, nextPaymentId>>

(* const schedule = []; let remaining = balance; let month = 0; *)
GeneratePayoffScheduleInit(p) ==
  /\ pc[p] = "gs_init"
  /\ Goto(p, "gs_loop")
  /\ SetLoc(p, [schedule |-> <<>>, remaining |-> arg[p].balance, month |-> 0])
  /\ UNCHANGED <<debtsKey, paymentsKey, op, arg, ret, pre, failed, nextDebtId,
                 nextPaymentId, calls, userKey, nextUserId, uiVars>>

(* One test of the loop condition and, if it holds, one pass of the body;  *)
(* `return schedule` when the loop ends or breaks.                         *)
GeneratePayoffScheduleLoop(p) ==
  /\ pc[p] = "gs_loop"
  /\ LET l == loc[p]
         month == l.month + 1
         interest == Interest(l.remaining, MonthlyRate(arg[p].annualRate))
         principal == Principal(arg[p].monthlyPayment, interest, l.remaining)
         remaining == NextRemaining(l.remaining, principal)
     IN  IF LoopContinues(l.remaining, l.month) /\ ~FLe(principal, Zero)
           THEN /\ SetLoc(p, [schedule |-> Append(l.schedule,
                                PayoffMonth(month, remaining, interest, principal)),
                              remaining |-> remaining, month |-> month])
                /\ UNCHANGED <<pc, ret>>
           ELSE Settle(p, [status |-> "resolved", schedule |-> l.schedule])
  /\ UNCHANGED <<debtsKey, paymentsKey, op, arg, pre, failed, nextDebtId,
                 nextPaymentId, calls, userKey, nextUserId, uiVars>>

EngineCall(p) ==
  \/ AllIdle /\ CallCalcMonthsToPayoff(p)
  \/ AllIdle /\ CallCalcTotalInterest(p)
  \/ AllIdle /\ CallGeneratePayoffSchedule(p)

EngineStep(p) ==
  \/ CalcMonthsToPayoffStep(p)
  \/ CalcTotalInterestStep(p)
  \/ GeneratePayoffScheduleInit(p)
  \/ GeneratePayoffScheduleLoop(p)
  \/ Acknowledge(p)

(* The display code calls the engine, one call after another. *)
NextEngine == EngineCall(MainCaller) \/ EngineStep(MainCaller)

SpecEngine == Init /\ [][NextEngine]_vars

(* ============================= User Store ============================= *)
(* src/storage/userStorage.ts: one AsyncStorage key holds the UserAccount  *)
(* as JSON text; its properties are strings and a boolean, which JSON      *)
(* keeps as they are.  A display name is a sequence of characters.         *)
MaxNameLen == 2

Chars == {" ", "a"}
Names == UNION {[1..n -> Chars] : n \in 0..MaxNameLen}
Buddy == <<"B", "u", "d", "d", "y">>

RECURSIVE TrimStart(_)
TrimStart(name) ==
  IF name # <<>> /\ Head(name) = " " THEN TrimStart(Tail(name)) ELSE name

RECURSIVE TrimEnd(_)
TrimEnd(name) ==
  IF name # <<>> /\ name[Len(name)] = " "
    THEN TrimEnd(SubSeq(name, 1, Len(name) - 1))
    ELSE name

(* name.trim() *)
Trim(name) == TrimEnd(TrimStart(name))

(* The account of getOrCreateUser's first launch branch; the calls begun   *)
(* so far are the clock that createdAt reads.                              *)
NewUser(id, now) ==
  [id |-> id, displayName |-> Buddy, createdAt |-> now,
   onboardingComplete |-> FALSE]

(* An update that builds the account anew around the name. *)
RenamedFromScratch(user, name) ==
  [NewUser(user.id, user.createdAt) EXCEPT
     !.displayName = IF Trim(name) = <<>> THEN Buddy ELSE Trim(name)]

(* { ...user, displayName: name.trim() || "Buddy" } *)
Renamed(user, name) ==
  [user EXCEPT !.displayName = IF Trim(name) = <<>> THEN Buddy ELSE Trim(name)]

(* { ...user, onboardingComplete: true } *)
OnboardingCompleted(user) == [user EXCEPT !.onboardingComplete = TRUE]

(* A getItem that hands out an account of its own making. *)
getUserItemForgetful(storeOk) ==
  IF ~storeOk THEN Rejected ELSE Resolved(Absent)

(* await AsyncStorage.getItem(USER_KEY) *)
getUserItem(storeOk) ==
  IF ~storeOk THEN Rejected ELSE Resolved(userKey)

(* await AsyncStorage.setItem(USER_KEY, JSON.stringify(user)) *)
setUserItem(user, storeOk) ==
  IF storeOk THEN JSONText(user) ELSE userKey

(* What a call resolves with: an account, or none (null, void). *)
UserResult(u) == [status |-> "resolved", user |-> u]

(* The caller of getOrCreateUser has the account: getOrCreateUser itself   *)
(* returns it, updateDisplayName and completeOnboarding go on with it.     *)
HaveUser(p, user, then) ==
  IF then = "return"
    THEN Settle(p, UserResult(<<user>>))
    ELSE Goto(p, then) /\ SetLoc(p, [user |-> user]) /\ UNCHANGED ret

(* const raw = await getItem; if (raw) return JSON.parse(raw);             *)
(* const newUser = { id: uuidv4(), ... }                                   *)
ReadOrMakeUser(p, then, create) ==
  \E storeOk \in BOOLEAN :
    LET r == getUserItem(storeOk) IN
    /\ NoteStore(p, storeOk)
    /\ IF ~r.ok THEN Throw(p) /\ UNCHANGED nextUserId
       ELSE IF r.val.tag = "json"
         THEN HaveUser(p, r.val.val, then) /\ UNCHANGED nextUserId
       ELSE /\ Goto(p, create)
            /\ SetLoc(p, [user |-> NewUser(nextUserId, calls)])
            /\ nextUserId' = nextUserId + 1
            /\ UNCHANGED ret

(* await setItem(USER_KEY, JSON.stringify(newUser)); return newUser; *)
PersistNewUser(p, then) ==
  \E storeOk \in BOOLEAN :
    /\ NoteStore(p, storeOk)
    /\ userKey' = setUserItem(loc[p].user, storeOk)
    /\ IF storeOk THEN HaveUser(p, loc[p].user, then) ELSE Throw(p)

(* await setItem(USER_KEY, JSON.stringify(updated)); return updated; *)
PersistUpdated(p, updated) ==
  \E storeOk \in BOOLEAN :
    /\ NoteStore(p, storeOk)
    /\ userKey' = setUserItem(updated, storeOk)
    /\ IF storeOk THEN Settle(p, UserResult(<<updated>>)) ELSE Throw(p)

(* --------------------------- getOrCreateUser -------------------------- *)
CallGetOrCreateUser(p) ==
  /\ Begin(p, "getOrCreateUser", NoArg, "gu_get")
  /\ UNCHANGED <<nextDebtId, nextPaymentId>>

GetOrCreateUserGet(p) ==
  /\ pc[p] = "gu_get"
  /\ ReadOrMakeUser(p, "return", "gu_set")
  /\ UNCHANGED <<debtsKey, paymentsKey, op, arg, pre, nextDebtId,
                 nextPaymentId, calls, userKey, uiVars>>

GetOrCreateUserSet(p) ==
  /\ pc[p] = "gu_set"
  /\ PersistNewUser(p, "return")
  /\ UNCHANGED <<debtsKey, paymentsKey, op, arg, pre, nextDebtId,
                 nextPaymentId, calls, nextUserId, uiVars>>

(* -------------------------------- getUser ----------------------------- *)
CallGetUser(p) ==
  /\ Begin(p, "getUser", NoArg, "u_get")
  /\ UNCHANGED <<nextDebtId, nextPaymentId>>

(* return raw ? JSON.parse(raw) : null *)
GetUserStep(p) ==
  /\ pc[p] = "u_get"
  /\ \E storeOk \in BOOLEAN :
       LET r == getUserItem(storeOk) IN
       /\ NoteStore(p, storeOk)
       /\ IF ~r.ok THEN Throw(p)
          ELSE Settle(p, UserResult(IF r.val.tag = "json"
                                      THEN <<r.val.val>> ELSE <<>>))
  /\ UNCHANGED <<debtsKey, paymentsKey, op, arg, pre, nextDebtId,
                 nextPaymentId, calls, userKey, nextUserId, uiVars>>

(* --------------------------- updateDisplayName ------------------------ *)
CallUpdateDisplayName(p) ==
  /\ \E name \in Names :
       Begin(p, "updateDisplayName", [name |-> name], "un_get")
  /\ UNCHANGED <<nextDebtId, nextPaymentId>>

UpdateDisplayNameGet(p) ==
  /\ pc[p] = "un_get"
  /\ ReadOrMakeUser(p, "un_set", "un_create")
  /\ UNCHANGED <<debtsKey, paymentsKey, op, arg, pre, nextDebtId,
                 nextPaymentId, calls, userKey, uiVars>>

UpdateDisplayNameCreate(p) ==
  /\ pc[p] = "un_create"
  /\ PersistNewUser(p, "un_set")
  /\ UNCHANGED <<debtsKey, paymentsKey, op, arg, pre, nextDebtId,
                 nextPaymentId, calls, nextUserId, uiVars>>

UpdateDisplayNameSet(p) ==
  /\ pc[p] = "un_set"
  /\ PersistUpdated(p, Renamed(loc[p].user, arg[p].name))
  /\ UNCHANGED <<debtsKey, paymentsKey, op, arg, pre, nextDebtId,
                 nextPaymentId, calls, nextUserId, uiVars>>

(* --------------------------- completeOnboarding ----------------------- *)
CallCompleteOnboarding(p) ==
  /\ Begin(p, "completeOnboarding", NoArg, "co_get")
  /\ UNCHANGED <<nextDebtId, nextPaymentId>>

CompleteOnboardingGet(p) ==
  /\ pc[p] = "co_get"
  /\ ReadOrMakeUser(p, "co_set", "co_create")
  /\ UNCHANGED <<debtsKey, paymentsKey, op, arg, pre, nextDebtId,
                 nextPaymentId, calls, userKey, uiVars>>

CompleteOnboardingCreate(p) ==
  /\ pc[p] = "co_create"
  /\ PersistNewUser(p, "co_set")
  /\ UNCHANGED <<debtsKey, paymentsKey, op, arg, pre, nextDebtId,
                 nextPaymentId, calls, nextUserId, uiVars>>

CompleteOnboardingSet(p) ==
  /\ pc[p] = "co_set"
  /\ PersistUpdated(p, OnboardingCompleted(loc[p].user))
  /\ UNCHANGED <<debtsKey, paymentsKey, op, arg, pre, nextDebtId,
                 nextPaymentId, calls, nextUserId, uiVars>>

(* ------------------------------ deleteAccount ------------------------- *)
CallDeleteAccount(p) ==
  /\ Begin(p, "deleteAccount", NoArg, "da_remove")
  /\ UNCHANGED <<nextDebtId, nextPaymentId>>

(* await AsyncStorage.removeItem(USER_KEY) *)
DeleteAccountStep(p) ==
  /\ pc[p] = "da_remove"
  /\ \E storeOk \in BOOLEAN :
       /\ NoteStore(p, storeOk)
       /\ userKey' = IF storeOk THEN Absent ELSE userKey
       /\ IF storeOk THEN Settle(p, UserResult(<<>>)) ELSE Throw(p)
  /\ UNCHANGED <<debtsKey, paymentsKey, op, arg, pre, nextDebtId,
                 nextPaymentId, calls, nextUserId, uiVars>>

UserCall(p) ==
  \/ AllIdle /\ CallGetOrCreateUser(p)
  \/ AllIdle /\ CallGetUser(p)
  \/ AllIdle /\ CallUpdateDisplayName(p)
  \/ AllIdle /\ CallCompleteOnboarding(p)
  \/ AllIdle /\ CallDeleteAccount(p)

UserStep(p) ==
  \/ GetOrCreateUserGet(p)
  \/ GetOrCreateUserSet(p)
  \/ GetUserStep(p)
  \/ UpdateDisplayNameGet(p)
  \/ UpdateDisplayNameCreate(p)
  \/ UpdateDisplayNameSet(p)
  \/ CompleteOnboardingGet(p)
  \/ CompleteOnboardingCreate(p)
  \/ CompleteOnboardingSet(p)
  \/ DeleteAccountStep(p)
  \/ Acknowledge(p)

(* The screens call the user store, one call after another. *)
NextUser == UserCall(MainCaller) \/ UserStep(MainCaller)

SpecUser == Init /\ [][NextUser]_vars

(* ============================ Theme Provider ========================== *)
(* src/theme/themes.ts and src/theme/ThemeProvider.tsx: the selected theme *)
(* id is a React state of ThemeProvider, loaded from THEME_KEY by an       *)
(* effect when the provider mounts and written to it by setThemeId.        *)
PresetIds == {"forest_gold", "neon_purple"}

DEFAULT_THEME_ID == "forest_gold"

(* THEME_BY_ID is filled from THEME_PRESETS into an object literal, which  *)
(* inherits the properties of Object.prototype.                            *)
InheritedNames == {"constructor"}

(* THEME_BY_ID[id] is truthy. *)
HasTheme(id) == id \in PresetIds \cup InheritedNames

(* The ids the screens pass to setThemeId are those of presets.map; one    *)
(* more stands for any string that is no preset.                           *)
ThemeIdArgs == PresetIds \cup {"solarized"}

(* if (stored && THEME_BY_ID[stored]) setThemeIdState(stored) *)
Loaded(stored, current) ==
  IF stored.tag = "text" /\ stored.text # "" /\ HasTheme(stored.text)
    THEN stored.text ELSE current

(* AsyncStorage runs the calls it is given one at a time, in the order it  *)
(* is given them.  A call that caller p awaits:                            *)
Awaited(p) == [by |-> p, debts |-> <<>>]

Issue(call) == issued' = Append(issued, call)

(* The call at the head of the queue is the one caller p awaits; it runs.  *)
RunsNow(p) ==
  /\ issued # <<>>
  /\ Head(issued) = Awaited(p)
  /\ issued' = Tail(issued)

(* The app starts: ThemeProvider mounts with the default id and its        *)
(* effect calls load(), whose getItem is then pending.                     *)
MountThemeProvider(p) ==
  /\ ~themeMounted
  /\ themeMounted' = TRUE
  /\ themeId' = DEFAULT_THEME_ID
  /\ BeginCall(p, "load", NoArg, "tl_get")
  /\ Issue(Awaited(p))
  /\ UNCHANGED <<formVars, themeKey, nextDebtId, nextPaymentId, screenMounted, screenDebts, isLoading, rejected>>

(* const stored = await AsyncStorage.getItem(THEME_KEY); ... *)
LoadThemeStep(p) ==
  /\ pc[p] = "tl_get"
  /\ RunsNow(p)
  /\ \E storeOk \in BOOLEAN :
       /\ NoteStore(p, storeOk)
       /\ IF storeOk
            THEN /\ themeId' = Loaded(themeKey, themeId)
                 /\ Return(p, <<>>, <<>>)
            ELSE /\ UNCHANGED themeId
                 /\ Throw(p)
  /\ UNCHANGED <<formVars, debtsKey, paymentsKey, op, arg, pre, nextDebtId, nextPaymentId, calls,
               userKey, nextUserId, themeKey, themeMounted, screenMounted, screenDebts, isLoading, rejected>>

(* setThemeId(id): the guard and setThemeIdState(id) run at the call, and  *)
(* the setItem is then pending.                                            *)
CallSetThemeId(p) ==
  /\ \E id \in ThemeIdArgs :
       /\ BeginCall(p, "setThemeId", [id |-> id],
                    IF HasTheme(id) THEN "st_set" ELSE "st_return")
       /\ themeId' = IF HasTheme(id) THEN id ELSE themeId
       /\ IF HasTheme(id) THEN Issue(Awaited(p)) ELSE UNCHANGED issued
  /\ UNCHANGED <<formVars, themeKey, themeMounted, nextDebtId, nextPaymentId,
               screenMounted, screenDebts, isLoading, rejected>>

(* if (!THEME_BY_ID[id]) return; *)
SetThemeIdReturn(p) ==
  /\ pc[p] = "st_return"
  /\ Return(p, <<>>, <<>>)
  /\ UNCHANGED <<formVars, debtsKey, paymentsKey, op, arg, pre, failed, nextDebtId, nextPaymentId,
               calls, userKey, nextUserId, uiVars>>

(* What THEME_KEY holds after setItem(THEME_KEY, id) settles. *)
setThemeItem(id, storeOk) ==
  IF storeOk THEN OtherText(id) ELSE themeKey

(* await AsyncStorage.setItem(THEME_KEY, id); *)
SetThemeIdSet(p) ==
  /\ pc[p] = "st_set"
  /\ RunsNow(p)
  /\ \E storeOk \in BOOLEAN :
       /\ NoteStore(p, storeOk)
       /\ themeKey' = setThemeItem(arg[p].id, storeOk)
       /\ IF storeOk THEN Return(p, <<>>, <<>>) ELSE Throw(p)
  /\ UNCHANGED <<formVars, debtsKey, paymentsKey, op, arg, pre, nextDebtId, nextPaymentId, calls,
               userKey, nextUserId, themeId, themeMounted, screenMounted, screenDebts, isLoading, rejected>>

(* The app is closed when nothing is pending; the React state is gone and  *)
(* the store keeps what it holds.                                          *)
CloseApp ==
  /\ themeMounted
  /\ AllIdle
  /\ themeMounted' = FALSE
  /\ UNCHANGED <<formVars, debtsKey, paymentsKey, pc, op, arg, loc, ret, pre, failed,
               nextDebtId, nextPaymentId, calls, userKey, nextUserId, themeKey, themeId,
               issued, screenMounted, screenDebts, isLoading, rejected>>

ThemeCall(p) ==
  \/ AllIdle /\ MountThemeProvider(p)
  \/ themeMounted /\ CallSetThemeId(p)

ThemeStep(p) ==
  \/ LoadThemeStep(p)
  \/ SetThemeIdReturn(p)
  \/ SetThemeIdSet(p)
  \/ Acknowledge(p)

(* The startup load and the setThemeId calls of the screens, in flight     *)
(* together.                                                               *)
NextTheme ==
  \/ \E p \in Procs : ThemeCall(p) \/ ThemeStep(p)
  \/ CloseApp

SpecTheme == Init /\ [][NextTheme]_vars

(* =========================== DebtTrackerScreen ======================== *)
(* src/screens/DebtTrackerScreen.tsx: the screen keeps the debts in a      *)
(* React state, loads it from the store when it mounts, and in every       *)
(* handler computes the new list in a setDebts updater that also calls     *)
(* saveDebts(updated) without awaiting it.                                 *)
MaxPending == 2

InFlight(q) == pc[q] \notin {"idle", "done"}

(* A saveDebts call that nobody awaits, with the calls that callers were   *)
(* awaiting when it was issued: those were issued before it.               *)
Unawaited(debts) ==
  [by |-> 0, debts |-> debts,
   after |-> [q \in Procs |-> IF InFlight(q) THEN <<pc[q], arg[q]>> ELSE <<>>]]

(* The call caller q awaits was issued before w. *)
Ahead(q, w) == InFlight(q) /\ w.after[q] = <<pc[q], arg[q]>>

(* The call caller p awaits is the next to run: every saveDebts still in   *)
(* the queue was issued after it.                                          *)
CallerRunsNext(p) == \A i \in 1..Len(issued) : Ahead(p, issued[i])

(* The caller that takes the next call the screens await. *)
NextCaller(p) == pc[p] = "idle" /\ \A q \in 1..(p - 1) : pc[q] # "idle"

(* The screen mounts: useState([]), useState(true), and the effect calls   *)
(* loadDebts(), whose getDebts is then pending.                            *)
MountScreen(p) ==
  /\ NextCaller(p)
  /\ ~screenMounted
  /\ issued = <<>>
  /\ screenMounted' = TRUE
  /\ screenDebts' = <<>>
  /\ isLoading' = TRUE
  /\ rejected' = FALSE
  /\ BeginCall(p, "loadDebts", NoArg, "gd_get")
  /\ UNCHANGED <<formVars, themeKey, themeId, themeMounted, issued, nextDebtId, nextPaymentId>>

(* The caller's promise has resolved and its continuation runs. *)
Resumes(p, name) == pc[p] = "done" /\ op[p] = name /\ ret[p].status = "resolved"

(* The call of caller p is over. *)
Forget(p) ==
  /\ pc' = [pc EXCEPT ![p] = "idle"]
  /\ op' = [op EXCEPT ![p] = "none"]
  /\ arg' = [arg EXCEPT ![p] = NoArg]
  /\ ret' = [ret EXCEPT ![p] = NoRet]
  /\ pre' = [pre EXCEPT ![p] = NoPre]
  /\ failed' = [failed EXCEPT ![p] = FALSE]

(* const stored = await getDebts(); setDebts(stored); setIsLoading(false); *)
(* a rejected getDebts rejects loadDebts before either.                    *)
LoadDebtsApply(p) ==
  /\ pc[p] = "done"
  /\ op[p] = "loadDebts"
  /\ IF ret[p].status = "resolved"
       THEN screenDebts' = ret[p].debts /\ isLoading' = FALSE
       ELSE UNCHANGED <<screenDebts, isLoading>>
  /\ rejected' = (rejected \/ ret[p].status = "rejected")
  /\ Forget(p)
  /\ UNCHANGED <<formVars, debtsKey, paymentsKey, loc, nextDebtId, nextPaymentId, calls,
               userKey, nextUserId, themeKey, themeId, themeMounted, screenMounted,
               issued>>

(* setDebts((prev) => { const updated = ...; saveDebts(updated);           *)
(* return updated; })                                                      *)
SetDebtsAndSave(updated) ==
  /\ Len(issued) < MaxPending
  /\ screenDebts' = updated
  /\ Issue(Unawaited(updated))

(* handleAddDebt(input): the modal passes balance = originalBalance > 0;   *)
(* the id is a fresh uuid.                                                 *)
HandleAddDebt ==
  /\ screenMounted
  /\ calls < MaxCalls
  /\ calls' = calls + 1
  /\ nextDebtId <= MaxDebts
  /\ \E b \in Amounts :
       SetDebtsAndSave(Append(screenDebts, NewDebt(nextDebtId, b)))
  /\ nextDebtId' = nextDebtId + 1
  /\ UNCHANGED <<formVars, debtsKey, paymentsKey, pc, op, arg, loc, ret, pre, failed,
               nextPaymentId, userKey, nextUserId, themeKey, themeId,
               themeMounted, screenMounted, isLoading, rejected>>

(* DebtCard passes an amount only if amount > 0 && amount <= debt.balance; *)
(* null compares as 0; undefined and NaN, on either side, compare false.   *)
CardAcceptsAnyPositive(amount, balance) == amount.k = "num" /\ amount.n > 0

CardAccepts(amount, balance) ==
  /\ amount.k = "num"
  /\ amount.n > 0
  /\ CASE balance.k = "num" -> amount.n <= balance.n
       [] balance.k = "null" -> amount.n <= 0
       [] OTHER -> FALSE

(* handlePayment(debtId, amount), called by the card of a debt shown. *)
HandlePayment(p) ==
  /\ NextCaller(p)
  /\ screenMounted
  /\ nextPaymentId <= MaxPayments
  /\ \E i \in 1..Len(screenDebts), amount \in Amounts :
       LET payment == NewPayment(nextPaymentId, screenDebts[i].id, amount) IN
       /\ CardAccepts(Num(amount), screenDebts[i].balance)
       /\ SetDebtsAndSave(Recalculate(screenDebts, payment))
       /\ BeginCall(p, "recordPayment", [payment |-> payment], "rp_getPayments")
  /\ nextPaymentId' = nextPaymentId + 1
  /\ UNCHANGED <<formVars, nextDebtId, themeKey, themeId, themeMounted, screenMounted, isLoading, rejected>>

(* handleDelete(debtId), called by the card of a debt shown. *)
HandleDelete ==
  /\ screenMounted
  /\ calls < MaxCalls
  /\ calls' = calls + 1
  /\ \E i \in 1..Len(screenDebts) :
       SetDebtsAndSave(FilterOut(screenDebts, screenDebts[i].id))
  /\ UNCHANGED <<formVars, debtsKey, paymentsKey, pc, op, arg, loc, ret, pre, failed,
               nextDebtId, nextPaymentId, userKey, nextUserId, themeKey,
               themeId, themeMounted, screenMounted, isLoading, rejected>>

(* The saveDebts at the head of the queue runs; nobody sees how it settles. *)
RunUnawaited ==
  /\ issued # <<>>
  /\ Head(issued).by = 0
  /\ \A q \in Procs : ~Ahead(q, Head(issued))
  /\ \E storeOk \in BOOLEAN :
       /\ debtsKey' = saveDebts(Head(issued).debts, storeOk)
       /\ rejected' = (rejected \/ ~storeOk)
  /\ issued' = Tail(issued)
  /\ UNCHANGED <<formVars, paymentsKey, pc, op, arg, loc, ret, pre, failed, nextDebtId,
               nextPaymentId, calls, userKey, nextUserId, themeKey, themeId,
               themeMounted, screenMounted, screenDebts, isLoading>>

(* The app is closed when nothing is pending; the store keeps what it holds. *)
CloseScreen ==
  /\ screenMounted
  /\ AllIdle
  /\ issued = <<>>
  /\ screenMounted' = FALSE
  /\ UNCHANGED <<formVars, debtsKey, paymentsKey, pc, op, arg, loc, ret, pre, failed,
               nextDebtId, nextPaymentId, calls, userKey, nextUserId, themeKey,
               themeId, themeMounted, screenDebts, isLoading, issued, rejected>>

(* await recordPayment(...) settles and handlePayment is over; a rejection  *)
(* rejects handlePayment, which nobody awaits.                             *)
HandlePaymentReturns(p) ==
  /\ pc[p] = "done"
  /\ op[p] = "recordPayment"
  /\ rejected' = (rejected \/ ret[p].status = "rejected")
  /\ Forget(p)
  /\ UNCHANGED <<formVars, debtsKey, paymentsKey, loc, nextDebtId, nextPaymentId, calls,
               userKey, nextUserId, themeKey, themeId, themeMounted, issued,
               screenMounted, screenDebts, isLoading>>

(* The steps of the store calls the screen awaits. *)
ScreenStep(p) ==
  \/ CallerRunsNext(p) /\ GetDebtsStep(p)
  \/ CallerRunsNext(p) /\ RecordPaymentGetPayments(p)
  \/ CallerRunsNext(p) /\ RecordPaymentSetPayments(p)
  \/ CallerRunsNext(p) /\ RecordPaymentUpdateDebtGet(p)
  \/ CallerRunsNext(p) /\ RecordPaymentUpdateDebtSave(p)
  \/ CallerRunsNext(p) /\ RecordPaymentSave(p)
  \/ LoadDebtsApply(p)
  \/ HandlePaymentReturns(p)

(* The handlers run once the load has set the list. *)
LoadedHandler(p) ==
  \/ ~isLoading /\ HandleAddDebt
  \/ ~isLoading /\ HandlePayment(p)
  \/ ~isLoading /\ HandleDelete

(* Nothing in the screen keeps a handler from running before that. *)
EarlyHandler(p) ==
  \/ isLoading /\ HandleAddDebt
  \/ isLoading /\ HandlePayment(p)
  \/ isLoading /\ HandleDelete

NextScreen ==
  \/ \E p \in Procs : (AllIdle /\ MountScreen(p)) \/ LoadedHandler(p) \/ ScreenStep(p)
  \/ RunUnawaited
  \/ CloseScreen

SpecScreen == Init /\ [][NextScreen]_vars

NextScreenEarly == NextScreen \/ \E p \in Procs : EarlyHandler(p)

SpecScreenEarly == Init /\ [][NextScreenEarly]_vars

(* ----------------------- ProfileScreen: Reset All Data ---------------- *)
(* src/screens/ProfileScreen.tsx, handleResetData's onPress:               *)
(* await clearAllData(); await deleteAccount(); await getOrCreateUser().   *)
(* DebtTrackerScreen stays mounted under the tab navigator.                *)
PressReset(p) ==
  /\ NextCaller(p)
  /\ screenMounted
  /\ ~isLoading
  /\ BeginCall(p, "clearAllData", [reset |-> calls], "cl_remove")
  /\ UNCHANGED <<nextDebtId, nextPaymentId, uiVars>>

(* The handler goes on to its next call. *)
GoOn(p, name, label) ==
  /\ pc' = [pc EXCEPT ![p] = label]
  /\ op' = [op EXCEPT ![p] = name]
  /\ ret' = [ret EXCEPT ![p] = NoRet]
  /\ UNCHANGED <<debtsKey, paymentsKey, arg, loc, pre, failed, nextDebtId,
               nextPaymentId, calls, userKey, nextUserId, uiVars>>

(* await deleteAccount(); *)
ResetDeleteAccount(p) ==
  /\ Resumes(p, "clearAllData")
  /\ GoOn(p, "deleteAccount", "da_remove")

(* const freshUser = await getOrCreateUser(); *)
ResetGetOrCreateUser(p) ==
  /\ Resumes(p, "deleteAccount")
  /\ GoOn(p, "getOrCreateUser", "gu_get")

(* The handler is over: it has set the fresh user, or a call has rejected. *)
ResetOver(p) ==
  \/ pc[p] = "done" /\ op[p] = "getOrCreateUser"
  \/ pc[p] = "done" /\ op[p] \in {"clearAllData", "deleteAccount"}
       /\ ret[p].status = "rejected"

ResetStep(p) ==
  \/ CallerRunsNext(p) /\ ClearAllDataStep(p)
  \/ ResetDeleteAccount(p)
  \/ CallerRunsNext(p) /\ DeleteAccountStep(p)
  \/ ResetGetOrCreateUser(p)
  \/ CallerRunsNext(p) /\ GetOrCreateUserGet(p)
  \/ CallerRunsNext(p) /\ GetOrCreateUserSet(p)
  \/ ResetOver(p) /\ Acknowledge(p)

(* The debt tracker with the profile tab's reset. *)
NextReset ==
  \/ NextScreen
  \/ \E p \in Procs : PressReset(p) \/ ResetStep(p)

SpecReset == Init /\ [][NextReset]_vars

(* ------------------------ App and OnboardingScreen -------------------- *)
(* App.tsx: AppContent checks the account at launch and shows              *)
(* OnboardingScreen until onboardingComplete.  src/screens/                *)
(* OnboardingScreen.tsx: three steps; the third has the display name field. *)
FreshOnboarding == [step |-> "theme", displayName |-> <<>>]

(* useEffect: checkOnboarding() awaits getOrCreateUser(). *)
LaunchApp(p) ==
  /\ NextCaller(p)
  /\ AllIdle
  /\ isOnboardingComplete = "null"
  /\ BeginCall(p, "getOrCreateUser", NoArg, "gu_get")
  /\ UNCHANGED <<nextDebtId, nextPaymentId, uiVars>>

(* setIsOnboardingComplete(user.onboardingComplete); OnboardingScreen      *)
(* mounts with useState("theme") and useState("") when it is false.        *)
CheckOnboardingApply(p) ==
  /\ pc[p] = "done"
  /\ op[p] = "getOrCreateUser"
  /\ isOnboardingComplete = "null"
  /\ IF ret[p].status = "resolved"
       THEN isOnboardingComplete' =
              (IF ret[p].user[1].onboardingComplete THEN "true" ELSE "false")
       ELSE UNCHANGED isOnboardingComplete
  /\ onboardingScreen' = FreshOnboarding
  /\ Forget(p)
  /\ UNCHANGED <<debtsKey, paymentsKey, loc, nextDebtId, nextPaymentId, calls,
               userKey, nextUserId, componentVars, addDebtModal, debtCard, called>>

OnboardingShown == isOnboardingComplete = "false"

(* handleNext *)
HandleNext ==
  /\ OnboardingShown
  /\ onboardingScreen.step \in {"theme", "welcome"}
  /\ onboardingScreen' =
       [onboardingScreen EXCEPT
          !.step = IF onboardingScreen.step = "theme" THEN "welcome" ELSE "name"]
  /\ UNCHANGED <<debtsKey, paymentsKey, pc, op, arg, loc, ret, pre, failed,
               nextDebtId, nextPaymentId, calls, userKey, nextUserId,
               componentVars, isOnboardingComplete, addDebtModal, debtCard, called>>

(* onChangeText={setDisplayName} of the field of step 3 *)
ChangeDisplayName ==
  /\ OnboardingShown
  /\ onboardingScreen.step = "name"
  /\ \E text \in Names :
       /\ text # onboardingScreen.displayName
       /\ onboardingScreen' = [onboardingScreen EXCEPT !.displayName = text]
  /\ UNCHANGED <<debtsKey, paymentsKey, pc, op, arg, loc, ret, pre, failed,
               nextDebtId, nextPaymentId, calls, userKey, nextUserId,
               componentVars, isOnboardingComplete, addDebtModal, debtCard, called>>

(* handleComplete and handleSkip: await completeOnboarding(), which takes  *)
(* no argument; the model notes the handler and the field as it was when   *)
(* the button was pressed.                                                 *)
PressOnboardingButton(p, handler) ==
  /\ pc[p] = "idle"
  /\ OnboardingShown
  /\ BeginCall(p, "completeOnboarding",
               [handler |-> handler, field |-> onboardingScreen.displayName],
               "co_get")
  /\ UNCHANGED <<nextDebtId, nextPaymentId, uiVars>>

HandleComplete(p) ==
  /\ onboardingScreen.step = "name"
  /\ PressOnboardingButton(p, "handleComplete")

HandleSkip(p) ==
  /\ onboardingScreen.step \in {"theme", "welcome"}
  /\ PressOnboardingButton(p, "handleSkip")

(* The account is there since the launch, so completeOnboarding finds it.  *)
(* onComplete(), App's handleOnboardingComplete: setIsOnboardingComplete(  *)
(* true); a rejected completeOnboarding rejects the handler before it.     *)
OnComplete(p) ==
  /\ pc[p] = "done"
  /\ op[p] = "completeOnboarding"
  /\ IF ret[p].status = "resolved"
       THEN isOnboardingComplete' = "true"
       ELSE UNCHANGED isOnboardingComplete
  /\ Forget(p)
  /\ UNCHANGED <<debtsKey, paymentsKey, loc, nextDebtId, nextPaymentId, calls,
               userKey, nextUserId, componentVars, onboardingScreen, addDebtModal,
               debtCard, called>>

(* The app is closed and may be launched again. *)
QuitApp ==
  /\ AllIdle
  /\ isOnboardingComplete # "null"
  /\ isOnboardingComplete' = "null"
  /\ UNCHANGED <<debtsKey, paymentsKey, pc, op, arg, loc, ret, pre, failed,
               nextDebtId, nextPaymentId, calls, userKey, nextUserId,
               componentVars, onboardingScreen, addDebtModal, debtCard, called>>

OnboardingStep(p) ==
  \/ GetOrCreateUserGet(p)
  \/ GetOrCreateUserSet(p)
  \/ CheckOnboardingApply(p)
  \/ CompleteOnboardingGet(p)
  \/ CompleteOnboardingSet(p)
  \/ OnComplete(p)

NextOnboarding ==
  \/ \E p \in Procs :
       LaunchApp(p) \/ HandleComplete(p) \/ HandleSkip(p) \/ OnboardingStep(p)
  \/ HandleNext
  \/ ChangeDisplayName
  \/ QuitApp

SpecOnboarding == Init /\ [][NextOnboarding]_vars

(* ------------------------------ parseFloat ---------------------------- *)
(* The forms hold what is typed as text, a sequence of characters, and     *)
(* read it with parseFloat: leading white space is skipped, then the       *)
(* longest prefix that is a decimal literal is the value, whatever         *)
(* follows it; no such prefix gives NaN.  "x" stands for a character that  *)
(* no numeric literal has.  Amounts are counted in hundredths.             *)
DigitValue ==
  [c \in {"0", "1", "2", "5"} |->
     CASE c = "0" -> 0 [] c = "1" -> 1 [] c = "2" -> 2 [] c = "5" -> 5]

RECURSIVE LeadingDigits(_)
LeadingDigits(text) ==
  IF text # <<>> /\ Head(text) \in DOMAIN DigitValue
    THEN <<Head(text)>> \o LeadingDigits(Tail(text))
    ELSE <<>>

RECURSIVE DecimalValue(_)
DecimalValue(digits) ==
  IF digits = <<>> THEN 0
  ELSE 10 * DecimalValue(SubSeq(digits, 1, Len(digits) - 1))
         + DigitValue[digits[Len(digits)]]

(* The first two digits after the point, in hundredths. *)
Hundredths(digits) ==
  (IF Len(digits) >= 1 THEN 10 * DigitValue[digits[1]] ELSE 0)
    + (IF Len(digits) >= 2 THEN DigitValue[digits[2]] ELSE 0)

(* StrDecimalLiteral at the start of the text: sign, digits, point,        *)
(* digits; and what is left after it.                                      *)
StrDecimalPrefix(text) ==
  LET s == TrimStart(text)
      signed == s # <<>> /\ Head(s) \in {"-", "+"}
      u == IF signed THEN Tail(s) ELSE s
      ip == LeadingDigits(u)
      afterInt == SubSeq(u, Len(ip) + 1, Len(u))
      dot == afterInt # <<>> /\ Head(afterInt) = "."
      fp == IF dot THEN LeadingDigits(Tail(afterInt)) ELSE <<>>
  IN [negative |-> signed /\ Head(s) = "-",
      whole |-> ip,
      fraction |-> fp,
      found |-> ip # <<>> \/ fp # <<>>,
      rest |-> IF dot THEN SubSeq(afterInt, Len(fp) + 2, Len(afterInt))
                      ELSE afterInt]

parseFloat(text) ==
  LET d == StrDecimalPrefix(text) IN
  IF ~d.found THEN NaN
  ELSE Num((IF d.negative THEN -1 ELSE 1)
             * (100 * DecimalValue(d.whole) + Hundredths(d.fraction)))

isNaN(x) == x.k # "num"

(* What is typed into a numeric field. *)
FieldTexts ==
  { <<>>, <<"0">>, <<"1">>, <<"-", "1">>, <<"x">>, <<"1", "x">>,
    <<"1", ".", "5">> }

(* ------------------------------ AddDebtModal -------------------------- *)
(* src/components/AddDebtModal.tsx *)
MaxPresses == 2

EmptyForm == [name |-> <<>>, balance |-> <<>>, rate |-> <<>>, minPayment |-> <<>>]

(* x > 0 and x >= 0, false for NaN *)
Above0(x) == x.k = "num" /\ x.n > 0
From0(x) == x.k = "num" /\ x.n >= 0

(* const isValid = ...: the Add button is disabled without it. *)
isValid(form) ==
  /\ Len(Trim(form.name)) > 0
  /\ Above0(parseFloat(form.balance))
  /\ From0(parseFloat(form.rate))
  /\ Above0(parseFloat(form.minPayment))

(* The four returns of handleSubmit before onAdd. *)
SubmitReturnsEarly(form) ==
  LET balanceNum == parseFloat(form.balance)
      rateNum == parseFloat(form.rate)
      paymentNum == parseFloat(form.minPayment)
  IN \/ Trim(form.name) = <<>>
     \/ isNaN(balanceNum) \/ balanceNum.n <= 0
     \/ isNaN(rateNum) \/ rateNum.n < 0
     \/ isNaN(paymentNum) \/ paymentNum.n <= 0

(* The argument of onAdd. *)
NewDebtInput(form) ==
  [name |-> Trim(form.name),
   balance |-> parseFloat(form.balance),
   originalBalance |-> parseFloat(form.balance),
   rate |-> parseFloat(form.rate),
   minPayment |-> parseFloat(form.minPayment)]

(* What is typed into the name field. *)
ModalNames == { <<>>, <<" ">>, <<" ", "a">> }

(* onChangeText={setName} *)
ChangeName ==
  /\ \E text \in ModalNames :
       /\ text # addDebtModal.name
       /\ addDebtModal' = [addDebtModal EXCEPT !.name = text]
  /\ UNCHANGED <<debtsKey, paymentsKey, pc, op, arg, loc, ret, pre, failed,
               nextDebtId, nextPaymentId, calls, userKey, nextUserId,
               componentVars, isOnboardingComplete, onboardingScreen, debtCard,
               called>>

(* onChangeText={setBalance}, {setRate}, {setMinPayment} *)
ChangeNumberField ==
  /\ \E field \in {"balance", "rate", "minPayment"}, text \in FieldTexts :
       /\ text # addDebtModal[field]
       /\ addDebtModal' = [addDebtModal EXCEPT ![field] = text]
  /\ UNCHANGED <<debtsKey, paymentsKey, pc, op, arg, loc, ret, pre, failed,
               nextDebtId, nextPaymentId, calls, userKey, nextUserId,
               componentVars, isOnboardingComplete, onboardingScreen, debtCard,
               called>>

(* handleSubmit *)
HandleSubmit ==
  IF SubmitReturnsEarly(addDebtModal)
    THEN UNCHANGED <<addDebtModal, called>>
    ELSE /\ called' = [fn |-> "onAdd", debt |-> NewDebtInput(addDebtModal)]
         /\ addDebtModal' = EmptyForm

(* The Add button is pressed; a press counts as a call. *)
PressAdd ==
  /\ isValid(addDebtModal)
  /\ calls < MaxPresses
  /\ calls' = calls + 1
  /\ HandleSubmit
  /\ UNCHANGED <<debtsKey, paymentsKey, pc, op, arg, loc, ret, pre, failed,
               nextDebtId, nextPaymentId, userKey, nextUserId,
               componentVars, isOnboardingComplete, onboardingScreen, debtCard>>

NextAddDebtModal == ChangeName \/ ChangeNumberField \/ PressAdd

SpecAddDebtModal == Init /\ [][NextAddDebtModal]_vars

(* -------------------------------- DebtCard ---------------------------- *)
(* The balances a card is given: numbers, and what a damaged balance  is   *)
(* after a load (null, or undefined) or after a subtraction (NaN).         *)
CardBalances == {Num(0), Num(100), Num(150), Null, Undefined, NaN}

(* The screen renders the card with the debt as it is now. *)
RenderCard ==
  /\ \E id \in DebtIds, b \in CardBalances :
       /\ [id |-> id, balance |-> b] # debtCard.debt
       /\ debtCard' = [debtCard EXCEPT !.debt = [id |-> id, balance |-> b]]
  /\ UNCHANGED <<debtsKey, paymentsKey, pc, op, arg, loc, ret, pre, failed,
               nextDebtId, nextPaymentId, calls, userKey, nextUserId,
               componentVars, isOnboardingComplete, onboardingScreen,
               addDebtModal, called>>

(* onPress={() => setShowPayInput(!showPayInput)} *)
TogglePayInput ==
  /\ debtCard' = [debtCard EXCEPT !.showPayInput = ~debtCard.showPayInput]
  /\ UNCHANGED <<debtsKey, paymentsKey, pc, op, arg, loc, ret, pre, failed,
               nextDebtId, nextPaymentId, calls, userKey, nextUserId,
               componentVars, isOnboardingComplete, onboardingScreen,
               addDebtModal, called>>

(* onChangeText={setPayAmount}; the field is there with showPayInput. *)
ChangePayAmount ==
  /\ debtCard.showPayInput
  /\ \E text \in FieldTexts :
       /\ text # debtCard.payAmount
       /\ debtCard' = [debtCard EXCEPT !.payAmount = text]
  /\ UNCHANGED <<debtsKey, paymentsKey, pc, op, arg, loc, ret, pre, failed,
               nextDebtId, nextPaymentId, calls, userKey, nextUserId,
               componentVars, isOnboardingComplete, onboardingScreen,
               addDebtModal, called>>

(* DebtCard's handlePayment *)
CardHandlePayment ==
  LET amount == parseFloat(debtCard.payAmount) IN
  IF CardAccepts(amount, debtCard.debt.balance)
    THEN /\ called' = [fn |-> "onPayment", debtId |-> debtCard.debt.id,
                       amount |-> amount]
         /\ debtCard' = [debtCard EXCEPT !.payAmount = <<>>,
                                         !.showPayInput = FALSE]
    ELSE UNCHANGED <<debtCard, called>>

(* The button next to the field is pressed; a press counts as a call. *)
PressPay ==
  /\ debtCard.showPayInput
  /\ calls < MaxCalls
  /\ calls' = calls + 1
  /\ CardHandlePayment
  /\ UNCHANGED <<debtsKey, paymentsKey, pc, op, arg, loc, ret, pre, failed,
               nextDebtId, nextPaymentId, userKey, nextUserId,
               componentVars, isOnboardingComplete, onboardingScreen,
               addDebtModal>>

NextDebtCard == RenderCard \/ TogglePayInput \/ ChangePayAmount \/ PressPay

SpecDebtCard == Init /\ [][NextDebtCard]_vars

(* ======================== properties of the store ===================== *)
(* What getDebts and getPayments give for a payload they can read. *)
DebtsOf(raw) == AsDebts(ParseOrEmpty(raw)).val
PaymentsOf(raw) == ParseOrEmpty(raw).val

Settled(p, name) == pc[p] = "done" /\ op[p] = name
Finished(p, name) == Settled(p, name) /\ ret[p].status = "resolved"

Indices(seq) == 1..Len(seq)
HasId(debts, id) == \E i \in Indices(debts) : debts[i].id = id

(* C1: a recordPayment of amount a <= b against a persisted debt of numeric *)
(* balance b returns and persists that debt with balance b - a, and the     *)
(* ledger gains exactly the one new record.                                *)
C1_PaymentReducesBalance ==
  \A p \in Procs :
    Finished(p, "recordPayment") =>
      LET pay == arg[p].payment
          before == DebtsOf(pre[p].debts)
          after == DebtsOf(debtsKey)
      IN  /\ PaymentsOf(paymentsKey) = Append(PaymentsOf(pre[p].payments), pay)
          /\ \A i \in Indices(before) :
               ( /\ before[i].id = pay.debtId
                 /\ IsNum(before[i].balance)
                 /\ pay.amount <= before[i].balance.n )
               => /\ Len(after) = Len(before)
                  /\ Len(ret[p].debts) = Len(before)
                  /\ after[i].balance = Num(before[i].balance.n - pay.amount)
                  /\ ret[p].debts[i].balance = Num(before[i].balance.n - pay.amount)

(* C2: a recordPayment of amount a > b against a debt of balance b >= 0     *)
(* leaves the persisted and the returned balance at 0, and no persisted    *)
(* balance is ever negative.                                               *)
C2_OverpaymentClampsToZero ==
  /\ \A i \in Indices(DebtsOf(debtsKey)) :
       IsNum(DebtsOf(debtsKey)[i].balance) => DebtsOf(debtsKey)[i].balance.n >= 0
  /\ \A p \in Procs :
       Finished(p, "recordPayment") =>
         LET pay == arg[p].payment
             before == DebtsOf(pre[p].debts)
             after == DebtsOf(debtsKey)
         IN  \A i \in Indices(before) :
               ( /\ before[i].id = pay.debtId
                 /\ IsNum(before[i].balance)
                 /\ before[i].balance.n >= 0
                 /\ pay.amount > before[i].balance.n )
               => /\ Len(after) = Len(before)
                  /\ Len(ret[p].debts) = Len(before)
                  /\ after[i].balance = Num(0)
                  /\ ret[p].debts[i].balance = Num(0)

(* C3: in every persisted state, between the storage writes of a call too, *)
(* every debt has a numeric balance with 0 <= balance <= originalBalance.  *)
C3_BalanceWithinBounds ==
  \A i \in Indices(DebtsOf(debtsKey)) :
    LET d == DebtsOf(debtsKey)[i] IN
    /\ IsNum(d.balance)
    /\ 0 <= d.balance.n
    /\ d.balance.n <= d.originalBalance

(* C4: a recordPayment whose debtId matches no persisted debt appends the   *)
(* payment to the ledger, leaves every debt and their order unchanged, and *)
(* signals no error (it rejects only if the store did).                    *)
C4_OrphanPaymentLeavesDebts ==
  \A p \in Procs :
    ( /\ Settled(p, "recordPayment")
      /\ ~HasId(DebtsOf(pre[p].debts), arg[p].payment.debtId) )
    => /\ ~failed[p] => ret[p].status = "resolved"
       /\ ret[p].status = "resolved" =>
            /\ PaymentsOf(paymentsKey) =
                 Append(PaymentsOf(pre[p].payments), arg[p].payment)
            /\ ret[p].payments = PaymentsOf(paymentsKey)
            /\ DebtsOf(debtsKey) = DebtsOf(pre[p].debts)
            /\ ret[p].debts = DebtsOf(pre[p].debts)

(* C4 happens: an orphan payment is recorded while a debt is persisted. *)
C4_Witness ==
  \E p \in Procs :
    /\ Finished(p, "recordPayment")
    /\ ~HasId(DebtsOf(pre[p].debts), arg[p].payment.debtId)
    /\ Len(DebtsOf(pre[p].debts)) >= 1

(* C5: a recordPayment against an existing debt that rejects leaves the    *)
(* ledger and the debts as they were before the call.                      *)
C5_RejectedPaymentChangesNothing ==
  \A p \in Procs :
    ( /\ Settled(p, "recordPayment")
      /\ ret[p].status = "rejected"
      /\ HasId(DebtsOf(pre[p].debts), arg[p].payment.debtId) )
    => /\ PaymentsOf(paymentsKey) = PaymentsOf(pre[p].payments)
       /\ DebtsOf(debtsKey) = DebtsOf(pre[p].debts)

InLedger(x, raw) == \E j \in Indices(PaymentsOf(raw)) : PaymentsOf(raw)[j] = x

(* A clearAllData call removes the keys in this step. *)
ClearingStep == \E p \in Procs : pc[p] = "cl_remove" /\ pc'[p] = "done"

(* C6 as stated: whatever calls run together, a record in the ledger stays  *)
(* in it, unchanged, across every step but clearAllData's.                 *)
C6_LedgerNeverLosesRecord ==
  [][ \/ ClearingStep
      \/ \A i \in Indices(PaymentsOf(paymentsKey)) :
           InLedger(PaymentsOf(paymentsKey)[i], paymentsKey')
    ]_vars

(* Caller p writes the ledger in this step, in a recordPayment that began   *)
(* before record x was persisted.                                          *)
OverlappingLedgerWrite(x) ==
  \E p \in Procs :
    /\ pc[p] = "rp_setPayments"
    /\ pc'[p] # "rp_setPayments"
    /\ ~InLedger(x, pre[p].payments)

(* C6 amended: a record leaves the ledger only when clearAllData runs or    *)
(* when a recordPayment that was already in flight when the record was     *)
(* persisted writes the ledger; no other step removes or alters a record.  *)
C6_LedgerLosesOnlyToOverlap ==
  [][ \/ ClearingStep
      \/ \A i \in Indices(PaymentsOf(paymentsKey)) :
           \/ InLedger(PaymentsOf(paymentsKey)[i], paymentsKey')
           \/ OverlappingLedgerWrite(PaymentsOf(paymentsKey)[i])
    ]_vars

(* C6 happens: a second recordPayment has written the ledger and the first  *)
(* record is still in it.                                                  *)
C6_Witness ==
  \E p \in Procs :
    /\ Finished(p, "recordPayment")
    /\ Len(PaymentsOf(pre[p].payments)) >= 1
    /\ Len(PaymentsOf(paymentsKey)) >= 2
    /\ InLedger(PaymentsOf(pre[p].payments)[1], paymentsKey)

(* C7: after deleteDebt(id) no persisted debt has that id, every other debt *)
(* is unchanged and in place, and the ledger is as it was, the payments    *)
(* recorded against id included.                                           *)
C7_DeleteKeepsPayments ==
  \A p \in Procs :
    Finished(p, "deleteDebt") =>
      LET before == DebtsOf(pre[p].debts)
          after == DebtsOf(debtsKey)
      IN  /\ ~HasId(after, arg[p].id)
          /\ after = SelectSeq(before, LAMBDA d : d.id # arg[p].id)
          /\ ret[p].debts = after
          /\ PaymentsOf(paymentsKey) = PaymentsOf(pre[p].payments)

(* C7 happens: a debt with a payment recorded against it is deleted while   *)
(* another debt is persisted.                                              *)
C7_Witness ==
  \E p \in Procs :
    /\ Finished(p, "deleteDebt")
    /\ HasId(DebtsOf(pre[p].debts), arg[p].id)
    /\ Len(DebtsOf(debtsKey)) >= 1
    /\ \E j \in Indices(PaymentsOf(paymentsKey)) :
         PaymentsOf(paymentsKey)[j].debtId = arg[p].id

(* C8: after clearAllData both keys are gone, getDebts and getPayments give *)
(* the empty sequence, and a clearAllData on a cleared store changes       *)
(* nothing.                                                                *)
C8_ClearAllDataIdempotent ==
  \A p \in Procs :
    Finished(p, "clearAllData") =>
      /\ debtsKey = Absent
      /\ paymentsKey = Absent
      /\ getDebts(TRUE) = Resolved(<<>>)
      /\ getPayments(TRUE) = Resolved(<<>>)
      /\ (pre[p].debts = Absent /\ pre[p].payments = Absent)
           => (debtsKey = pre[p].debts /\ paymentsKey = pre[p].payments)

(* C8 happens: clearAllData has removed a debt and a payment. *)
C8_Witness ==
  \E p \in Procs :
    /\ Finished(p, "clearAllData")
    /\ Len(DebtsOf(pre[p].debts)) >= 1
    /\ Len(PaymentsOf(pre[p].payments)) >= 1

(* C9: getDebts and getPayments give the empty collection only for an      *)
(* absent key or an empty JSON array; for a payload that is not JSON, the  *)
(* empty string included, they reject.                                     *)
C9_MalformedPayloadRejects ==
  \A p \in Procs :
    /\ Finished(p, "getDebts") =>
         /\ pre[p].debts.tag # "text"
         /\ ret[p].debts = <<>> =>
              (pre[p].debts = Absent \/ pre[p].debts = JSONText(<<>>))
    /\ Finished(p, "getPayments") =>
         /\ pre[p].payments.tag # "text"
         /\ ret[p].payments = <<>> =>
              (pre[p].payments = Absent \/ pre[p].payments = JSONText(<<>>))

(* C10: an operation rejects whenever a store call it issued was rejected,  *)
(* and a failed addDebt, deleteDebt or updateDebt leaves the persisted     *)
(* debts as they were.                                                     *)
C10_StoreFailurePropagates ==
  \A p \in Procs :
    (pc[p] = "done" /\ failed[p]) =>
      /\ ret[p].status = "rejected"
      /\ op[p] \in {"addDebt", "deleteDebt", "updateDebt"} => debtsKey = pre[p].debts

(* C10 happens: the write of an addDebt fails with a debt already stored. *)
C10_Witness ==
  \E p \in Procs :
    /\ Settled(p, "addDebt")
    /\ failed[p]
    /\ Len(DebtsOf(pre[p].debts)) >= 1

(* The id and originalBalance of each debt of a collection, in order. *)
Identity(debts) ==
  [i \in 1..Len(debts) |-> <<debts[i].id, debts[i].originalBalance>>]

IsPrefix(s, t) == Len(s) <= Len(t) /\ SubSeq(t, 1, Len(s)) = s

PairwiseDistinctIds(debts) ==
  \A i, j \in Indices(debts) : debts[i].id = debts[j].id => i = j

(* C11: the ids of the debts in the persisted collection are pairwise      *)
(* distinct, whatever addDebt, deleteDebt, updateDebt and recordPayment    *)
(* calls have run.                                                         *)
C11_PersistedIdsDistinct == PairwiseDistinctIds(DebtsOf(debtsKey))

(* C12: a step of addDebt, updateDebt or recordPayment that writes the     *)
(* debts keeps the id and originalBalance of every debt that was there,    *)
(* and a step of deleteDebt keeps those of every debt with another id.     *)
C12_IdentityFieldsKept ==
  [][ \A p \in Procs :
        LET old == Identity(DebtsOf(debtsKey))
            new == Identity(DebtsOf(debtsKey'))
        IN  /\ op[p] \in {"addDebt", "updateDebt", "recordPayment"}
                 => IsPrefix(old, new)
            /\ (op[p] = "deleteDebt" /\ debtsKey' # debtsKey)
                 => new = SelectSeq(old, LAMBDA x : x[1] # arg[p].id)
    ]_vars

(* ======================= properties of the engine ===================== *)
IsWhole(x) == IsFlt(x) /\ x.e >= 0
IntOf(x) == x.m * Pow2(x.e)
CeilDiv(b, m) == (b + m - 1) \div m

MonthsOf(a) == calcMonthsToPayoff(a.balance, a.annualRate, a.monthlyPayment)

Positive(x) == IsFlt(x) /\ x.m > 0
NotPositive(x) == IsFlt(x) /\ x.m <= 0

(* balance > 0, rate >= 0, payment > 0 and payment > balance*rate/12/100,  *)
(* in whole numbers.                                                       *)
PaysDown(a) ==
  /\ Positive(a.balance) /\ Positive(a.monthlyPayment)
  /\ IsFlt(a.annualRate) /\ a.annualRate.m >= 0
  /\ 1200 * IntOf(a.monthlyPayment) > IntOf(a.balance) * IntOf(a.annualRate)

(* rate > 0 and payment <= balance * rate / 1200, in whole numbers. *)
InterestNotCovered(a) ==
  /\ Positive(a.balance) /\ Positive(a.monthlyPayment)
  /\ Positive(a.annualRate)
  /\ 1200 * IntOf(a.monthlyPayment) <= IntOf(a.balance) * IntOf(a.annualRate)

ReachesZeroBy(schedule, n) ==
  \E i \in Indices(schedule) :
    schedule[i].balance = Zero /\ schedule[i].month <= n

ScheduleSoFar(p) ==
  IF pc[p] = "gs_loop" THEN loc[p].schedule ELSE ret[p].schedule

(* C14: the schedule never has more than 600 records and its k-th record  *)
(* is month k; every pass of the loop returns or adds one to a month count *)
(* that never exceeds 600, so that every call returns within 601 passes.   *)
C14_ScheduleBoundedAndReturns ==
  /\ [](\A p \in Procs :
          (op[p] = "generatePayoffSchedule" /\ pc[p] \in {"gs_loop", "done"}) =>
             /\ Len(ScheduleSoFar(p)) <= MaxScheduleMonths
             /\ \A i \in Indices(ScheduleSoFar(p)) :
                  ScheduleSoFar(p)[i].month = i)
  /\ [][\A p \in Procs :
          pc[p] = "gs_loop" =>
             \/ pc'[p] = "done"
             \/ /\ pc'[p] = "gs_loop"
                /\ loc'[p].month = loc[p].month + 1
                /\ loc'[p].month <= MaxScheduleMonths]_vars

(* A schedule that the cap has cut at 600 records. *)
C14_Witness ==
  \E p \in Procs :
    /\ Finished(p, "generatePayoffSchedule")
    /\ Len(ret[p].schedule) = MaxScheduleMonths
    /\ Positive(ret[p].schedule[MaxScheduleMonths].balance)

C16_UncoveredInterestIsNever ==
  \A p \in Procs :
    (Finished(p, "calcMonthsToPayoff") /\ InterestNotCovered(arg[p]))
    => ret[p].value = Infinity

(* C17: calcTotalInterest is a number >= 0; it is 0 when the month count   *)
(* is Infinity or 0, and max(0, monthlyPayment * months - balance)         *)
(* otherwise.                                                              *)
C17_TotalInterestNonNegative ==
  \A p \in Procs :
    Finished(p, "calcTotalInterest") =>
      LET n == MonthsOf(arg[p])
          v == ret[p].value
      IN  /\ IsFlt(v) /\ v.m >= 0
          /\ IF n = Infinity \/ n = Zero
               THEN v = Zero
               ELSE v = MathMax(Zero, FSub(FMul(arg[p].monthlyPayment, n),
                                           arg[p].balance))

(* C18: calcMonthsToPayoff returns 0 when the balance is <= 0, Infinity    *)
(* when the balance is above 0 and the payment <= 0, whatever the rate,    *)
(* and never anything but a whole number >= 0 or Infinity.                 *)
C18_TotalOnDegenerateInput ==
  \A p \in Procs :
    Settled(p, "calcMonthsToPayoff") =>
      /\ ret[p].status = "resolved"
      /\ NotPositive(arg[p].balance) => ret[p].value = Zero
      /\ (Positive(arg[p].balance) /\ NotPositive(arg[p].monthlyPayment))
           => ret[p].value = Infinity
      /\ \/ ret[p].value = Infinity
         \/ IsWhole(ret[p].value) /\ ret[p].value.m >= 0

(* ===================== properties of the user store =================== *)
HasAccount(raw) == raw.tag = "json"
Onboarded(raw) == HasAccount(raw) /\ raw.val.onboardingComplete

(* The removeItem of a deleteAccount call takes effect in this step. *)
DeletingStep == \E p \in Procs : pc[p] = "da_remove" /\ pc'[p] = "done"

UserOps == {"getOrCreateUser", "getUser", "updateDisplayName",
            "completeOnboarding"}

(* C19: a persisted onboardingComplete that is true stays true across      *)
(* every step of getOrCreateUser, getUser, updateDisplayName and           *)
(* completeOnboarding; and a persisted account that is not onboarded is    *)
(* either the account that was there, not onboarded, or a fresh account    *)
(* written where there was none.                                           *)
C19_OnboardingNeverReverts ==
  [][ /\ (Onboarded(userKey) /\ ~DeletingStep) => Onboarded(userKey')
      /\ (HasAccount(userKey') /\ ~Onboarded(userKey')) =>
            \/ /\ HasAccount(userKey) /\ ~Onboarded(userKey)
               /\ userKey'.val.id = userKey.val.id
            \/ /\ ~HasAccount(userKey)
               /\ userKey'.val.id = nextUserId - 1
    ]_vars

(* An onboarded account has been renamed, and is still onboarded. *)
C19_Witness ==
  \E p \in Procs :
    /\ Finished(p, "updateDisplayName")
    /\ Onboarded(userKey)
    /\ userKey.val.displayName # Buddy
    /\ ret[p].user = <<userKey.val>>

(* C20: an id is made only when no account is stored; while no             *)
(* deleteAccount removes it, the stored account keeps its id and           *)
(* createdAt; and every account a call returns is the stored one, by id    *)
(* and createdAt.                                                          *)
C20_UserIdGeneratedOnce ==
  /\ [](\A p \in Procs :
          (pc[p] = "done" /\ op[p] \in UserOps /\ ret[p].status = "resolved"
           /\ ret[p].user # <<>>) =>
             /\ HasAccount(userKey)
             /\ ret[p].user[1].id = userKey.val.id
             /\ ret[p].user[1].createdAt = userKey.val.createdAt)
  /\ [][ /\ nextUserId' # nextUserId => ~HasAccount(userKey)
         /\ (HasAccount(userKey) /\ ~DeletingStep) =>
               /\ HasAccount(userKey')
               /\ userKey'.val.id = userKey.val.id
               /\ userKey'.val.createdAt = userKey.val.createdAt
     ]_vars

(* The account made by an earlier call is returned, renamed and onboarded, *)
(* by a later one, with no id made since.                                  *)
C20_Witness ==
  \E p \in Procs :
    /\ Finished(p, "getOrCreateUser")
    /\ calls >= 3
    /\ nextUserId = 2
    /\ ret[p].user[1].id = 1
    /\ ret[p].user[1].onboardingComplete
    /\ ret[p].user[1].displayName # Buddy

(* ==================== properties of the theme provider ================ *)
(* No storage operation is pending. *)
NothingPending == \A p \in Procs : pc[p] \in {"idle", "done"}

PersistedTheme == IF themeKey.tag = "text" THEN themeKey.text ELSE ""

(* With nothing pending, the state themeId is the preset id that           *)
(* THEME_KEY holds.                                                        *)
C21_MemoryEqualsPersisted ==
  (themeMounted /\ NothingPending /\ PersistedTheme \in PresetIds) =>
    themeId = PersistedTheme

(* The state themeId is a preset id. *)
C21_MemoryIsPreset == themeMounted => themeId \in PresetIds

(* C21: the theme selection is a write-through cache: under every          *)
(* interleaving of the startup load with setThemeId calls, once nothing    *)
(* is pending the in-memory themeId equals the preset id persisted under   *)
(* THEME_KEY, and the in-memory themeId is always a preset id.             *)
C21_ThemeIsWriteThroughCache ==
  /\ C21_MemoryEqualsPersisted
  /\ C21_MemoryIsPreset

(* ================== properties of recordPayment's writes ============== *)
DebtsWriteLabels == {"rp_updateDebt_save", "rp_save"}

(* C22: within one recordPayment call the payments ledger with the new     *)
(* record is written before any write to the debts collection: a step of   *)
(* the call that changes the debts payload comes after the setItem of the  *)
(* ledger, and whenever the debts payload differs from what it was when    *)
(* the call began, the ledger holds the call's record.                     *)
C22_LedgerWrittenBeforeDebts ==
  /\ [](\A p \in Procs :
          (op[p] = "recordPayment" /\ debtsKey # pre[p].debts) =>
            InLedger(arg[p].payment, paymentsKey))
  /\ [][\A p \in Procs :
          (op[p] = "recordPayment" /\ pc[p] # "done" /\ debtsKey' # debtsKey) =>
            /\ pc[p] \in DebtsWriteLabels
            /\ InLedger(arg[p].payment, paymentsKey)
            /\ ~InLedger(arg[p].payment, pre[p].payments)
     ]_vars

(* A recordPayment against a stored debt has written the ledger and then   *)
(* the debts.                                                              *)
C22_Witness ==
  \E p \in Procs :
    /\ Finished(p, "recordPayment")
    /\ HasId(DebtsOf(pre[p].debts), arg[p].payment.debtId)
    /\ debtsKey # pre[p].debts
    /\ InLedger(arg[p].payment, paymentsKey)

BalanceOf(debts, id) ==
  LET i == CHOOSE i \in Indices(debts) : debts[i].id = id IN debts[i].balance

(* Two recordPayment calls against one stored debt of numeric balance have *)
(* both resolved, and each began before the other had written anything.    *)
BothPaid(p, q) ==
  /\ p # q
  /\ Finished(p, "recordPayment")
  /\ Finished(q, "recordPayment")
  /\ arg[p].payment.debtId = arg[q].payment.debtId
  /\ pre[p] = pre[q]
  /\ HasId(DebtsOf(pre[p].debts), arg[p].payment.debtId)
  /\ IsNum(BalanceOf(DebtsOf(pre[p].debts), arg[p].payment.debtId))
  /\ HasId(DebtsOf(debtsKey), arg[p].payment.debtId)

ScreenSettled ==
  /\ screenMounted
  /\ ~isLoading
  /\ \A p \in Procs : pc[p] = "idle"
  /\ issued = <<>>
  /\ ~rejected

(* What a load of the persisted collection gives is what a load of the     *)
(* saved in-memory list would give: same debts, same balances.             *)
PersistedIsShown == DebtsOf(debtsKey) = ParseDebts(StringifyDebts(screenDebts))

(* C24: DebtTrackerScreen keeps local state and storage in step: after any *)
(* sequence of handleAddDebt, handlePayment and handleDelete calls, once   *)
(* every storage operation they started has completed, the persisted debts *)
(* collection equals the in-memory debts list (same ids, same balances).   *)
C24_ScreenAndStorageInStep == ScreenSettled => PersistedIsShown

(* handleDelete is called with id: the list without it is set and saved. *)
DeleteStepOf(id) ==
  /\ HasId(screenDebts, id)
  /\ screenDebts' = FilterOut(screenDebts, id)
  /\ Len(issued') = Len(issued) + 1

(* C29: no added debt is lost: under every interleaving of the mount-time  *)
(* load and of the un-awaited saveDebts writes with user actions, a debt   *)
(* added through handleAddDebt stays in the in-memory list unless          *)
(* handleDelete is called with its id, and once all pending storage        *)
(* operations are complete every debt of the list is in the persisted      *)
(* debts collection.                                                       *)
C29_NoAddedDebtLost ==
  /\ [](ScreenSettled =>
         \A id \in DebtIds :
           HasId(screenDebts, id) => HasId(DebtsOf(debtsKey), id))
  /\ [][\A id \in DebtIds :
          (screenMounted /\ HasId(screenDebts, id) /\ ~DeleteStepOf(id)) =>
            HasId(screenDebts', id)
     ]_vars

(* The reset of caller p has completed: what its getOrCreateUser resolved  *)
(* with is the fresh user, and pre[p] is what the keys held before it.     *)
ResetCompleted(p) == Resumes(p, "getOrCreateUser")

(* C28: Reset All Data is permanent: after the reset (clearAllData, then   *)
(* deleteAccount, then getOrCreateUser) has completed, no debt that        *)
(* existed before the reset is in the persisted debts collection,          *)
(* whatever handlers of the still-mounted DebtTrackerScreen run afterwards. *)
C28_ResetIsPermanent ==
  \A p \in Procs :
    ResetCompleted(p) =>
      \A id \in DebtIds :
        HasId(DebtsOf(pre[p].debts), id) => ~HasId(DebtsOf(debtsKey), id)

(* ================= properties of the onboarding screen ================ *)
(* displayName.trim() || "Buddy": the name the account is to show. *)
NameToShow(field) == IF Trim(field) = <<>> THEN Buddy ELSE Trim(field)

(* handleComplete's completeOnboarding has resolved; onComplete is next. *)
CompletedWith(p) ==
  /\ Resumes(p, "completeOnboarding")
  /\ arg[p].handler = "handleComplete"

(* C27: the display name entered in onboarding step 3 takes effect: when   *)
(* the user completes onboarding with name n in the field, the persisted   *)
(* user's displayName is n ("Buddy" when the field is blank), and          *)
(* onboardingComplete is persisted as true before onComplete is invoked.   *)
C27_OnboardingNameTakesEffect ==
  \A p \in Procs :
    CompletedWith(p) =>
      /\ Onboarded(userKey)
      /\ userKey.val.displayName = NameToShow(arg[p].field)

(* ========================= properties of the forms ==================== *)
(* The whole of the text is a number: Number(text) is one and the text is  *)
(* not blank.                                                              *)
IsNumericText(text) ==
  StrDecimalPrefix(text).found /\ Trim(StrDecimalPrefix(text).rest) = <<>>

(* No field is empty, non-numeric or out of range. *)
FieldsAreValid(form) ==
  /\ Trim(form.name) # <<>>
  /\ IsNumericText(form.balance) /\ Above0(parseFloat(form.balance))
  /\ IsNumericText(form.rate) /\ From0(parseFloat(form.rate))
  /\ IsNumericText(form.minPayment) /\ Above0(parseFloat(form.minPayment))

ValidatedDebt(debt) ==
  /\ debt.name # <<>>
  /\ debt.name = Trim(debt.name)
  /\ Above0(debt.balance)
  /\ From0(debt.rate)
  /\ Above0(debt.minPayment)
  /\ debt.originalBalance = debt.balance

(* C25: AddDebtModal calls onAdd only with a validated debt: every debt    *)
(* passed to onAdd has a non-empty trimmed name, balance > 0, rate >= 0,   *)
(* minPayment > 0 and originalBalance equal to balance; when any field is  *)
(* empty, non-numeric or out of range, a press of Add does not call onAdd  *)
(* and leaves the form fields unchanged.                                   *)
C25_OnAddOnlyWithValidatedDebt ==
  /\ [](called.fn = "onAdd" => ValidatedDebt(called.debt))
  /\ [][(calls' # calls /\ ~FieldsAreValid(addDebtModal)) =>
          UNCHANGED <<addDebtModal, called>>
     ]_vars

(* The amount is a number, positive and not above the balance, a number. *)
AmountInRange(amount, balance) ==
  /\ amount.k = "num"
  /\ balance.k = "num"
  /\ 0 < amount.n
  /\ amount.n <= balance.n

(* C26: DebtCard submits a payment only when it is positive and does not   *)
(* exceed the balance: a press calls onPayment(debt.id, amount) only if    *)
(* 0 < amount <= debt.balance for the debt shown; otherwise (the amount    *)
(* not a number, zero, negative, above the balance, or the balance not a   *)
(* number) nothing is submitted and payAmount and showPayInput stay as     *)
(* they are.                                                               *)
C26_PaymentOnlyWithinBalance ==
  [][calls' # calls =>
       LET amount == parseFloat(debtCard.payAmount) IN
       IF AmountInRange(amount, debtCard.debt.balance)
         THEN called' = [fn |-> "onPayment", debtId |-> debtCard.debt.id,
                         amount |-> amount]
         ELSE UNCHANGED <<debtCard, called>>
  ]_vars

(* A payment of the whole balance has been submitted, one of less, and the *)
(* card stands with an amount above the balance still in its field.        *)
C26_Witness ==
  /\ called.fn = "onPayment"
  /\ called.amount = Num(100)
  /\ debtCard.debt.balance = Num(100)
  /\ debtCard.payAmount = <<"1", ".", "5">>
  /\ debtCard.showPayInput
  /\ calls = MaxCalls

(* ====================== properties at 0% APR ========================== *)
(* A call of the engine with balance > 0, monthlyPayment > 0 and rate 0    *)
(* has returned.                                                           *)
FinishedAtZeroRate(p, name) ==
  /\ Finished(p, name)
  /\ arg[p].annualRate = Zero
  /\ Positive(arg[p].balance)
  /\ Positive(arg[p].monthlyPayment)

(* C30: at 0% APR no interest is reported: for all balance > 0 and         *)
(* monthlyPayment > 0, calcTotalInterest(balance, 0, monthlyPayment) is 0, *)
(* which is the sum of interestPaid over generatePayoffSchedule(balance,   *)
(* 0, monthlyPayment), every record of which has interestPaid 0.           *)
C30_NoInterestAtZeroRate ==
  \A p \in Procs :
    /\ FinishedAtZeroRate(p, "calcTotalInterest") => ret[p].value = Zero
    /\ FinishedAtZeroRate(p, "generatePayoffSchedule") =>
         \A i \in Indices(ret[p].schedule) :
           ret[p].schedule[i].interestPaid = Zero

====
